---- MODULE Spec2Model ----
(***************************************************************************)
(* The ghc-mod backend of SublimeHaskell (src/ghcimod/backend.py): the     *)
(* per-project GHCModClient sessions, their wire protocol with the         *)
(* `ghc-mod legacy-interactive` subprocess, the project registry of        *)
(* GHCModBackend and translate_regex_output.                               *)
(*                                                                         *)
(* Text is modelled as sequences of one-character strings so that          *)
(* slicing and rstrip do what str[0:3], str[3:] and str.rstrip() do.       *)
(***************************************************************************)
EXTENDS Integers, Sequences, FiniteSets, TLC

\* ------------------------------------------------------------------ bounds

\* GHCModClient objects constructed over a run of one thread's calls.
MaxClients == 2

\* GHCModClient objects constructed over a run of concurrent calls.
MaxClientsConcurrent == 1

\* Content lines ghc-mod emits in one reply before the line that ends it.
MaxReply == 1

\* Lines of a reply stream handed to read_response in SpecRead.
MaxStream == 3

\* Lines a pipe holds before the next write to it blocks.
MaxPipe == 2

\* Options in Settings.PLUGIN.ghc_opts past which no further session is
\* constructed.
MaxOpts == 4

\* ------------------------------------------------------------- the universe

Threads == {"t1", "t2"}

Files == {"f1", "f2"}

Projects == {"p1", "p2"}

\* The project the editor's project tracking passes along with a file.
ProjectOf(f) == IF f = "f1" THEN "p1" ELSE "p2"

NoThread == "none"

\* ---------------------------------------------------------------- strings

Whitespace == {" ", "\t", "\n", "\r"}

RECURSIVE rstrip(_)
rstrip(s) ==
    IF s = <<>> THEN <<>>
    ELSE IF s[Len(s)] \in Whitespace THEN rstrip(SubSeq(s, 1, Len(s) - 1))
    ELSE s

\* s[i:j] of Python, 0 <= i <= j.
Slice(s, i, j) == SubSeq(s, i + 1, IF j < Len(s) THEN j ELSE Len(s))

\* s[i:] of Python.
SliceFrom(s, i) == SubSeq(s, i + 1, Len(s))

GHCMOD_OUTPUT_MARKER == <<"O", ":", " ">>

GHCMOD_ERROR_MARKER == <<"X", ":", " ">>

NG_MARKER == <<"N", "G", " ">>

OK_TEXT == <<"O", "K">>

\* The branch of read_response's loop body that `resp`, the string
\* readline() returned, takes ("" is the end of the stream).
line_class(resp) ==
    IF resp = <<>> THEN "eof"
    ELSE LET prefix == Slice(resp, 0, 3)
             text == SliceFrom(rstrip(resp), 3)
         IN  IF prefix = GHCMOD_OUTPUT_MARKER
             THEN IF text = OK_TEXT THEN "ok" ELSE "out"
             ELSE IF prefix = GHCMOD_ERROR_MARKER THEN "err"
             ELSE IF prefix = NG_MARKER THEN "ng"
             ELSE "unexpected"

\* The loop with an NG branch that reports the line and reads on.
got_reply_in_reading_on(class) == class \in {"eof", "ok", "unexpected"}

\* The branches that set got_reply = True.
got_reply_in(class) == class \in {"eof", "ok", "ng", "unexpected"}

\* The line appended as read, its prefix cut off and nothing else.
appended_as_read(resp) == SliceFrom(resp, 3)

\* What a branch appends: resp.rstrip()[3:], rstripped once more.
appended(resp) == rstrip(SliceFrom(rstrip(resp), 3))

\* One pass of the body of read_response's while loop.  fin names the branch
\* that ended the loop, "none" while it goes on.
read_response_line(resp, resp_stdout, resp_stderr) ==
    LET class == line_class(resp)
    IN  [got_reply |-> got_reply_in(class),
         resp_stdout |-> IF class = "out"
                         THEN Append(resp_stdout, appended(resp))
                         ELSE resp_stdout,
         resp_stderr |-> IF class = "err"
                         THEN Append(resp_stderr, appended(resp))
                         ELSE resp_stderr,
         fin |-> IF got_reply_in(class) THEN class ELSE "none"]

\* ------------------------------------------------------- what ghc-mod says

\* Raw lines as readline() returns them, newline included.
LineOA == <<"O", ":", " ", "a", "\n">>

LineXE == <<"X", ":", " ", "e", "\n">>

LineOK == <<"O", ":", " ", "O", "K", "\n">>

LineNG == <<"N", "G", " ", "x", "\n">>

LineJunk == <<"z", "z", "\n">>

\* Lines with trailing blanks, an empty text, and a blank line.
LineOASp == <<"O", ":", " ", "a", " ", "\n">>

LineOKSp == <<"O", ":", " ", "O", "K", " ", "\n">>

LineXEmpty == <<"X", ":", " ", "\n">>

LineBlank == <<"\n">>

\* What ghc-mod writes in the middle of a reply: O: and X: lines and, off
\* the protocol, a line without a marker (a message that went to stdout).
\* What it writes last: `O: OK`, an NG line, or a line without a marker
\* after which it writes no more.
ContentLines == {LineOA, LineXE}

StrayLines == {LineOA, LineJunk}

EndLines == {LineOK, LineNG, LineJunk}

\* The lines read_response is tried on in SpecRead.
StreamLines ==
    {LineOA, LineXE, LineOK, LineNG, LineJunk, LineOASp, LineOKSp, LineXEmpty,
     LineBlank}

\* ------------------------------------------------------------------ state

VARIABLES
    project_backends,  \* GHCModBackend.project_backends: project -> client, 0 = no key
    file_to_project,   \* HaskellBackend.file_to_project: file -> project or "none"
    nclients,          \* GHCModClient objects constructed so far
    client,            \* the fields of each GHCModClient
    lockHolder,        \* who holds each client's threading.Lock object
    process,           \* each client's ghc-mod subprocess and its pipes
    hist,              \* what the shutdown() calls on each client did
    th,                \* each calling thread: where it is and its locals
    xlat,              \* a call of translate_check / translate_lint
    helper,            \* a ProcHelper under construction
    ghc_opts,          \* Settings.PLUGIN.ghc_opts, the configured list
    opt_args           \* the opt_args each GHCModClient was started with

vars ==
    <<project_backends, file_to_project, nclients, client, lockHolder,
      process, hist, th, xlat, helper, ghc_opts, opt_args>>

Clients == 1..MaxClients

\* A GHCModClient before __init__ ran.  ghcmod is "None", "proc" (a
\* ProcHelper whose process started) or "noproc" (a ProcHelper whose process
\* is None); action_lock tells whether the field holds a Lock; stderr_drain
\* is "None", "alive" or "ended" (the drain thread ran to the stream's end).
NoClient ==
    [ghcmod |-> "None", action_lock |-> FALSE, stderr_drain |-> "None",
     project |-> "none"]

\* state: "none" (never started), "running" or "exited".  stdin holds what
\* was written and not yet answered, its head being answered; stdout the
\* lines written and not yet read; nrep the content lines of the reply under
\* way.
NoProcess == [state |-> "none", stdin |-> <<>>, stdout |-> <<>>, nrep |-> 0]

NoHist ==
    [calls |-> 0, writes |-> 0, stops |-> 0, raised |-> FALSE,
     unlocked |-> FALSE, ng |-> FALSE]

\* shutdown() calls counted per client (the count stops there).
CallsCounted == 2

\* What a call gave its caller: a value (the two channels) or an exception.
NoOutcome == [kind |-> "none", out |-> <<>>, err |-> <<>>, exc |-> "none"]

Value(out, err) == [kind |-> "value", out |-> out, err |-> err, exc |-> "none"]

Raise(exc) == [kind |-> "raise", out |-> <<>>, err |-> <<>>, exc |-> exc]

\* A thread outside any call.  op is the facade operation under way, stage
\* the client method it is in ("map", "cmd", "unmap"), seen the lines its
\* read_response consumed, fin how the client method ended, got what the
\* client method (or the facade in its place) gave, log the facade calls
\* translate_regex_output made, pending the outcome its finally block holds,
\* ret what the last operation gave; todo, size, stale and changed are
\* stop_backend's dictionary iterator.
IdleThread ==
    [pc |-> "idle", op |-> "none", stage |-> "none", file |-> "none",
     cl |-> 0, resp_stdout |-> <<>>, resp_stderr |-> <<>>, seen |-> <<>>,
     fin |-> "none", got |-> NoOutcome, mapped_file |-> FALSE,
     pending |-> NoOutcome, log |-> <<>>, ret |-> NoOutcome, todo |-> {},
     size |-> 0, stale |-> FALSE, changed |-> FALSE]

\* No call of a translator.
NoCall == [kind |-> "none"]

\* No ProcHelper is being constructed.
NoHelper == [pc |-> "none"]

Init ==
    /\ project_backends = [p \in Projects |-> 0]
    /\ file_to_project = [f \in Files |-> "none"]
    /\ nclients = 0
    /\ client = [c \in Clients |-> NoClient]
    /\ lockHolder = [c \in Clients |-> NoThread]
    /\ process = [c \in Clients |-> NoProcess]
    /\ hist = [c \in Clients |-> NoHist]
    /\ th = [t \in Threads |-> IdleThread]
    /\ xlat = NoCall
    /\ helper = NoHelper
    /\ ghc_opts = <<>>
    /\ opt_args = [c \in Clients |-> <<>>]

\* ------------------------------------------------- the facade's control flow

\* The operation of thread record s is over with outcome o.
Finish(s, o) == [s EXCEPT !.pc = "idle", !.ret = o]

\* translate_regex_output with the unmap after the command instead of in a
\* finally block: an exception of the command leaves before it.
translate_regex_output_without_finally(s, o) ==
    CASE s.stage = "map" ->
            IF o.kind = "raise" THEN Finish(s, o)
            ELSE [s EXCEPT !.mapped_file = TRUE, !.stage = "cmd",
                           !.pc = "resolve"]
      [] s.stage = "cmd" ->
            IF s.mapped_file /\ o.kind # "raise"
            THEN [s EXCEPT !.pending = o, !.stage = "unmap", !.pc = "resolve"]
            ELSE Finish([s EXCEPT !.pending = o], o)
      [] OTHER ->
            Finish(s, IF o.kind = "raise" THEN o ELSE s.pending)

\* translate_regex_output after one of its facade calls gave outcome o:
\* backend_map_file is outside the try, command_backend inside it, and
\* backend_unmap_file in its finally when mapped_file is set.
translate_regex_output(s, o) ==
    CASE s.stage = "map" ->
            IF o.kind = "raise" THEN Finish(s, o)
            ELSE [s EXCEPT !.mapped_file = TRUE, !.stage = "cmd",
                           !.pc = "resolve"]
      [] s.stage = "cmd" ->
            IF s.mapped_file
            THEN [s EXCEPT !.pending = o, !.stage = "unmap", !.pc = "resolve"]
            ELSE Finish(s, o)
      [] OTHER ->
            Finish(s, IF o.kind = "raise" THEN o ELSE s.pending)

\* The thread's record after its client method (or the facade's early
\* return) gave outcome o.
After(s, o) ==
    LET r == [s EXCEPT !.got = o]
    IN  IF s.op = "check" THEN translate_regex_output(r, o) ELSE Finish(r, o)

\* get_backend(filename): the client of the file's project, 0 for None.
get_backend(f) ==
    IF file_to_project[f] = "none" THEN 0
    ELSE project_backends[file_to_project[f]]

\* The facade's command_backend / backend_map_file / backend_unmap_file up
\* to the client's `with self.action_lock:`: no backend gives ([], []), a
\* client whose action_lock is None raises at the with statement.
Enter(s) ==
    LET r == [s EXCEPT !.log = Append(@, s.stage), !.cl = get_backend(s.file),
                       !.resp_stdout = <<>>, !.resp_stderr = <<>>,
                       !.seen = <<>>, !.fin = "none", !.got = NoOutcome]
    IN  IF r.cl = 0 THEN After(r, Value(<<>>, <<>>))
        ELSE IF ~client[r.cl].action_lock
        THEN After([r EXCEPT !.fin = "with_none"], Raise("AttributeError"))
        ELSE [r EXCEPT !.pc = "acquire"]

\* GHCModBackend.command_backend(filename, cmd) is called.
Command(t, f) ==
    /\ th[t].pc = "idle"
    /\ th' = [th EXCEPT ![t] =
                Enter([IdleThread EXCEPT !.op = "cmd", !.stage = "cmd",
                                         !.file = f])]
    /\ UNCHANGED <<helper, ghc_opts, opt_args, xlat, project_backends, file_to_project, nclients, client,
                   lockHolder, process, hist>>

\* check() or lint() is called for one file, with or without its contents:
\* translate_regex_output starts with backend_map_file or command_backend.
Check(t, f, with_contents) ==
    /\ th[t].pc = "idle"
    /\ th' = [th EXCEPT ![t] =
                Enter([IdleThread EXCEPT
                         !.op = "check", !.file = f,
                         !.stage = IF with_contents THEN "map" ELSE "cmd"])]
    /\ UNCHANGED <<helper, ghc_opts, opt_args, xlat, project_backends, file_to_project, nclients, client,
                   lockHolder, process, hist>>

\* The value of `[]`, the else arm of langs' conditional expression.
EmptyList == [kind |-> "list", out |-> <<>>, err |-> <<>>, exc |-> "none"]

\* `langs, _ = o`: a pair unpacks, the empty list raises ValueError.
unpack_pair(o) == IF o.kind = "list" THEN Raise("ValueError") ELSE o

\* langs(project_name) is called (flags, scope_modules and the exact-lookup
\* module are written the same way): the session is looked up by project
\* name, `backend.command_backend(...) if backend is not None else []` is
\* evaluated and unpacked into two names.
Langs(t, p) ==
    LET c == project_backends[p]
        s == [IdleThread EXCEPT !.op = "langs", !.stage = "cmd", !.cl = c,
                                !.log = <<"cmd">>]
    IN  /\ th[t].pc = "idle"
        /\ th' = [th EXCEPT ![t] =
                    IF c = 0
                    THEN Finish([s EXCEPT !.got = EmptyList],
                                unpack_pair(EmptyList))
                    ELSE IF ~client[c].action_lock
                    THEN After([s EXCEPT !.fin = "with_none"],
                               Raise("AttributeError"))
                    ELSE [s EXCEPT !.pc = "acquire"]]
        /\ UNCHANGED <<helper, ghc_opts, opt_args, xlat, project_backends, file_to_project, nclients, client,
                       lockHolder, process, hist>>

\* translate_regex_output makes its next facade call.
Resolve(t) ==
    /\ th[t].pc = "resolve"
    /\ th' = [th EXCEPT ![t] = Enter(th[t])]
    /\ UNCHANGED <<helper, ghc_opts, opt_args, xlat, project_backends, file_to_project, nclients, client,
                   lockHolder, process, hist>>

\* One lock shared by all the sessions.
LockFreeShared(c) == \A d \in Clients : lockHolder[d] = NoThread

\* A lock that lets everybody in.
LockFreeAlways(c) == TRUE

\* threading.Lock.acquire() returns when nobody holds the lock.
LockFree(c) == lockHolder[c] = NoThread

\* A with block that looks the lock up in self.action_lock again when it
\* is left: nothing to release once shutdown() has set the field to None.
release_by_field(c) ==
    IF client'[c].action_lock THEN [lockHolder EXCEPT ![c] = NoThread]
    ELSE lockHolder

\* The end of `with self.action_lock:`, by return or by exception: the Lock
\* the with statement was entered with is released, whatever the field
\* holds by then.
release(c) == [lockHolder EXCEPT ![c] = NoThread]

\* `with self.action_lock:` gets the lock it was waiting for.
Acquire(t) ==
    /\ th[t].pc = "acquire"
    /\ LockFree(th[t].cl)
    /\ lockHolder' = [lockHolder EXCEPT ![th[t].cl] = t]
    /\ th' = [th EXCEPT ![t].pc = "write"]
    /\ UNCHANGED <<helper, ghc_opts, opt_args, xlat, project_backends, file_to_project, nclients, client,
                   process, hist>>

\* A process nobody can reach any more is not followed further: its client's
\* fields are None and no thread other than t is inside readline() on its
\* stdout.
Gone == [state |-> "exited", stdin |-> <<>>, stdout |-> <<>>, nrep |-> 0]

Unreachable(c, t, ghcmod) ==
    /\ ghcmod = "None"
    /\ \A u \in Threads \ {t} : ~(th[u].pc = "readline" /\ th[u].cl = c)

\* GHCModClient.shutdown(), called by thread t, on a client whose ghcmod is
\* not a ProcHelper without process: the blank line is printed when ghcmod is
\* set (an OSError, as on the pipe of an exited process, is passed over), a
\* drain that is alive is stopped and joined, and the three fields are set
\* to None.  hist notes whether the caller printed without holding the
\* client's lock.
shutdown(c, t) ==
    LET prints == client[c].ghcmod = "proc"
        stops == client[c].stderr_drain = "alive"
        blank == [kind |-> "blank", file |-> "none", by |-> NoThread]
    IN  /\ process' =
              IF Unreachable(c, t, "None") THEN [process EXCEPT ![c] = Gone]
              ELSE IF prints /\ process[c].state = "running"
              THEN [process EXCEPT ![c].stdin = Append(@, blank)]
              ELSE process
        /\ client' = [client EXCEPT ![c].ghcmod = "None",
                                    ![c].action_lock = FALSE,
                                    ![c].stderr_drain = "None"]
        /\ hist' = [hist EXCEPT
                      ![c].calls = IF @ < CallsCounted THEN @ + 1 ELSE @,
                      ![c].writes = IF prints THEN @ + 1 ELSE @,
                      ![c].stops = IF stops THEN @ + 1 ELSE @,
                      ![c].unlocked = @ \/ (prints /\ lockHolder[c] # t)]

\* What the three client methods write before they read the reply:
\* command_backend the command line, map_file the map-file line, the
\* contents and the EOT line, unmap_file the unmap-file line.
written(s, t) == [kind |-> s.stage, file |-> s.file, by |-> t]

\* Inside the with block: the write to self.ghcmod.process.stdin.  With
\* ghcmod None the AttributeError leaves the with block (the lock is
\* released) and reaches the caller; an OSError (the process has exited) is
\* caught: shutdown(), return ([], []).  A write to a full pipe blocks.
Write(t) ==
    LET s == th[t]
        c == s.cl
    IN  /\ s.pc = "write"
        /\ (client[c].ghcmod # "None" /\ process[c].state = "running")
           => Len(process[c].stdin) < MaxPipe
        /\ UNCHANGED <<helper, ghc_opts, opt_args, xlat, project_backends, file_to_project, nclients>>
        /\ IF client[c].ghcmod = "None"
           THEN /\ th' = [th EXCEPT ![t] =
                            After([s EXCEPT !.fin = "write_none"],
                                  Raise("AttributeError"))]
                /\ UNCHANGED <<client, process, hist>>
                /\ lockHolder' = release(c)
           ELSE IF process[c].state # "running"
           THEN /\ shutdown(c, t)
                /\ lockHolder' = release(c)
                /\ th' = [th EXCEPT ![t] =
                            After([s EXCEPT !.fin = "write_oserror"],
                                  Value(<<>>, <<>>))]
           ELSE /\ process' = [process EXCEPT ![c].stdin =
                                 Append(@, written(s, t))]
                /\ th' = [th EXCEPT ![t].pc = "read"]
                /\ UNCHANGED <<client, lockHolder, hist>>

\* read_response's loop evaluates self.ghcmod.process.stdout.readline: with
\* ghcmod None the AttributeError is not an OSError and goes through
\* read_response and the client method to the caller.
Read(t) ==
    LET s == th[t]
        c == s.cl
    IN  /\ s.pc = "read"
        /\ UNCHANGED <<helper, ghc_opts, opt_args, xlat, project_backends, file_to_project, nclients, client,
                       process, hist>>
        /\ IF client[c].ghcmod = "None"
           THEN /\ lockHolder' = release(c)
                /\ th' = [th EXCEPT ![t] =
                            After([s EXCEPT !.fin = "read_none"],
                                  Raise("AttributeError"))]
           ELSE /\ th' = [th EXCEPT ![t].pc = "readline"]
                /\ UNCHANGED lockHolder

\* What read_response returns once the loop is over.
read_response_result(resp_stdout, resp_stderr) == Value(resp_stdout, resp_stderr)

\* A loop that also shuts the session down when ghc-mod answers NG.
read_response_shutdown_on_failure(fin) == fin \in {"oserror", "ng"}

\* The ways out of read_response's loop on which shutdown() is called: the
\* except clause alone.
read_response_shutdown(fin) == fin = "oserror"

\* readline() returns: the next line of the pipe, or "" when the pipe is
\* empty and the process has exited; it blocks otherwise.  The loop body
\* runs on it, and when got_reply is set read_response and the client method
\* return the two lists and the lock is released.  hist notes that the
\* session has answered NG.
Readline(t) ==
    LET s == th[t]
        c == s.cl
        has == process[c].stdout # <<>>
        resp == IF has THEN Head(process[c].stdout).text ELSE <<>>
        r == read_response_line(resp, s.resp_stdout, s.resp_stderr)
        s1 == [s EXCEPT !.resp_stdout = r.resp_stdout,
                        !.resp_stderr = r.resp_stderr,
                        !.fin = r.fin,
                        !.seen = IF has THEN Append(@, Head(process[c].stdout))
                                 ELSE @]
    IN  /\ s.pc = "readline"
        /\ has \/ process[c].state # "running"
        /\ IF r.got_reply /\ read_response_shutdown(r.fin)
           THEN shutdown(c, t)
           ELSE /\ process' =
                     IF Unreachable(c, t, client[c].ghcmod)
                     THEN [process EXCEPT ![c] = Gone]
                     ELSE IF has THEN [process EXCEPT ![c].stdout = Tail(@)]
                     ELSE process
                /\ hist' = [hist EXCEPT ![c].ng = @ \/ r.fin = "ng"]
                /\ UNCHANGED client
        /\ IF r.got_reply
           THEN /\ lockHolder' = release(c)
                /\ th' = [th EXCEPT ![t] =
                            After(s1, read_response_result(s1.resp_stdout,
                                                           s1.resp_stderr))]
           ELSE /\ th' = [th EXCEPT ![t] = [s1 EXCEPT !.pc = "read"]]
                /\ UNCHANGED lockHolder
        /\ UNCHANGED <<helper, ghc_opts, opt_args, xlat, project_backends, file_to_project, nclients>>

\* readline() raises OSError: read_response calls shutdown() and returns what
\* it had accumulated; the client method returns that.
ReadFault(t) ==
    LET s == [th[t] EXCEPT !.fin = "oserror"]
        c == s.cl
    IN  /\ th[t].pc = "readline"
        /\ shutdown(c, t)
        /\ lockHolder' = release(c)
        /\ th' = [th EXCEPT ![t] =
                    After(s, read_response_result(s.resp_stdout, s.resp_stderr))]
        /\ UNCHANGED <<helper, ghc_opts, opt_args, xlat, project_backends, file_to_project, nclients>>

\* ------------------------------------------------------------ the registry

Keys == {p \in Projects : project_backends[p] # 0}

\* A membership test that takes a dead session for no session.
HasLiveBackend(p) ==
    /\ project_backends[p] # 0
    /\ client[project_backends[p]].ghcmod # "None"

\* add_project_file without its membership test.
HasBackendUntested(p) == FALSE

\* `project in self.project_backends`
HasBackend(p) == p \in Keys

Constructing == {u \in Threads : th[u].pc = "add"}

\* add_project_file(filename, project, project_dir) up to its test
\* `project not in self.project_backends`; the call is over when the key is
\* there.  (A call that would construct a client past the bound cap, or
\* with MaxOpts options configured, is not started.)
AddProjectFile(t, f, cap) ==
    LET p == ProjectOf(f)
        s == [IdleThread EXCEPT !.op = "add", !.file = f]
    IN  /\ th[t].pc = "idle"
        /\ \/ HasBackend(p)
           \/ /\ nclients + Cardinality(Constructing) < cap
              /\ Len(ghc_opts) < MaxOpts
        /\ file_to_project' = [file_to_project EXCEPT ![f] = p]
        /\ th' = [th EXCEPT ![t] =
                    IF HasBackend(p) THEN Finish(s, Value(<<>>, <<>>))
                    ELSE [s EXCEPT !.pc = "add"]]
        /\ UNCHANGED <<helper, ghc_opts, opt_args, xlat, project_backends, nclients, client, lockHolder,
                       process, hist>>

\* What ProcHelper.__init__ gives GHCModClient.__init__: "proc" (the process
\* started), "noproc" (ghc-mod is not on the PATH: process stays None) or
\* "raise" (Popen raised an OSError, which __init__ lets through).
SpawnOutcomes == {"proc", "noproc", "raise"}

\* GHCModClient.__init__ with ProcHelper's outcome.
GHCModClient(p, outcome) ==
    [ghcmod |-> outcome, action_lock |-> outcome = "proc",
     stderr_drain |-> IF outcome = "proc" THEN "alive" ELSE "None",
     project |-> p]

\* ProcHelper.get_source_dir(filename): the root of the hs-source-dirs the
\* file is under, one directory for each file of the model.
get_source_dir(f) == IF f = "f1" THEN "src1" ELSE "src2"

\* ghci_package_db(cabal), conf telling whether os.listdir(cabal) holds a
\* packages-*.conf: os.path.join(cabal, package_conf) is handed the list of
\* them and raises TypeError; without one the method returns None.
ghci_package_db(conf) == IF conf THEN "TypeError" ELSE "None"

\* get_ghc_opts(filename, add_package_db, cabal), setting being
\* Settings.PLUGIN.ghc_opts: `setting or []` is the setting's own list
\* unless that is empty, and append() changes the list it is called on.
\* The result holds what was raised, the list returned and the setting
\* after the call.  (A package_db of None adds no -package-db option.)
get_ghc_opts(setting, filename, add_package_db, conf) ==
    IF add_package_db /\ ghci_package_db(conf) = "TypeError"
    THEN [raised |-> "TypeError", opts |-> <<>>, setting |-> setting]
    ELSE [raised |-> "none",
          opts |-> Append(setting, <<"-i", get_source_dir(filename)>>),
          setting |-> IF setting # <<>>
                      THEN Append(setting, <<"-i", get_source_dir(filename)>>)
                      ELSE setting]

\* args.extend(['-g', opt]) for each opt of a list.
g_args(opts) ==
    [i \in 1..(2 * Len(opts)) |->
        IF i % 2 = 1 THEN <<"-g">> ELSE opts[i \div 2]]

\* get_ghc_opts_args(filename, add_package_db, cabal)
get_ghc_opts_args(setting, filename, add_package_db, conf) ==
    [get_ghc_opts(setting, filename, add_package_db, conf)
        EXCEPT !.opts = g_args(@)]

\* opt_args = self.get_ghc_opts_args(filename, add_package_db=True,
\*                                   cabal=project_dir)
\* self.project_backends[project] = GHCModClient(project, project_dir, opt_args)
\* in a project directory that holds a packages-*.conf or not, as Confs says.
AddCreateIn(t, Confs) ==
    LET p == ProjectOf(th[t].file)
        c == nclients + 1
    IN  /\ th[t].pc = "add"
        /\ \E conf \in Confs :
           \E r \in {get_ghc_opts_args(ghc_opts, th[t].file, TRUE, conf)} :
              /\ ghc_opts' = r.setting
              /\ IF r.raised # "none"
                 THEN /\ th' = [th EXCEPT ![t] = Finish(th[t], Raise(r.raised))]
                      /\ UNCHANGED <<project_backends, nclients, client,
                                     process, opt_args>>
                 ELSE \E outcome \in SpawnOutcomes :
                    IF outcome = "raise"
                    THEN /\ th' = [th EXCEPT ![t] = Finish(th[t], Raise("OSError"))]
                         /\ UNCHANGED <<project_backends, nclients, client,
                                        process, opt_args>>
                    ELSE /\ client' = [client EXCEPT ![c] = GHCModClient(p, outcome)]
                         /\ process' = [process EXCEPT ![c].state =
                                          IF outcome = "proc" THEN "running" ELSE "none"]
                         /\ project_backends' = [project_backends EXCEPT ![p] = c]
                         /\ nclients' = c
                         /\ opt_args' = [opt_args EXCEPT ![c] = r.opts]
                         /\ th' = [th EXCEPT ![t] =
                                     Finish([th[t] EXCEPT !.cl = c], Value(<<>>, <<>>))]
        /\ UNCHANGED <<helper, xlat, file_to_project, lockHolder, hist>>

\* The second half of add_project_file in a project directory without a
\* packages-*.conf.
AddCreate(t) == AddCreateIn(t, {FALSE})

\* stop_backend() is called: the for loop takes an iterator of the
\* dictionary, which remembers the dictionary's size.
StopBackend(t) ==
    /\ th[t].pc = "idle"
    /\ th' = [th EXCEPT ![t] =
                [IdleThread EXCEPT !.op = "stop", !.pc = "stop", !.todo = Keys,
                                   !.size = Cardinality(Keys)]]
    /\ UNCHANGED <<helper, ghc_opts, opt_args, xlat, project_backends, file_to_project, nclients, client,
                   lockHolder, process, hist>>

\* One turn of stop_backend's loop.  The iterator raises RuntimeError when
\* its dictionary changed size; at its end self.project_backends is bound to
\* a new empty dictionary (iterators of the old one keep the old one);
\* otherwise the next project's client is looked up in
\* self.project_backends (KeyError when it is not there) and shut down.  A
\* client whose ProcHelper has no process raises AttributeError at
\* self.ghcmod.process.stdin, which ends stop_backend.
StopNext(t) ==
    LET s == th[t]
        changed == IF s.stale THEN s.changed ELSE Cardinality(Keys) # s.size
    IN  /\ s.pc = "stop"
        /\ UNCHANGED <<helper, ghc_opts, opt_args, xlat, file_to_project, nclients, lockHolder>>
        /\ IF changed
           THEN /\ th' = [th EXCEPT ![t] = Finish(s, Raise("RuntimeError"))]
                /\ UNCHANGED <<project_backends, client, process, hist>>
           ELSE IF s.todo = {}
           THEN /\ project_backends' = [p \in Projects |-> 0]
                /\ th' = [u \in Threads |->
                            IF u = t THEN Finish(s, Value(<<>>, <<>>))
                            ELSE IF th[u].pc = "stop" /\ ~th[u].stale
                            THEN [th[u] EXCEPT
                                    !.stale = TRUE,
                                    !.changed = Cardinality(Keys) # th[u].size]
                            ELSE th[u]]
                /\ UNCHANGED <<client, process, hist>>
           ELSE \E p \in s.todo :
                  LET c == project_backends[p]
                  IN  IF c = 0
                      THEN /\ th' = [th EXCEPT ![t] = Finish(s, Raise("KeyError"))]
                           /\ UNCHANGED <<project_backends, client, process, hist>>
                      ELSE IF client[c].ghcmod = "noproc"
                      THEN /\ hist' = [hist EXCEPT
                                         ![c].calls = IF @ < CallsCounted
                                                      THEN @ + 1 ELSE @,
                                         ![c].raised = TRUE]
                           /\ th' = [th EXCEPT ![t] =
                                       Finish([s EXCEPT !.cl = c],
                                              Raise("AttributeError"))]
                           /\ UNCHANGED <<project_backends, client, process>>
                      ELSE /\ shutdown(c, t)
                           /\ th' = [th EXCEPT ![t].todo = @ \ {p},
                                               ![t].cl = c]
                           /\ UNCHANGED project_backends

\* ------------------------------------------------------------ the subprocess

\* ghc-mod (running) works on the head of its stdin: a blank line ends it;
\* for a command it writes one more line of the reply, in the middle of the
\* reply (more := TRUE) or as its last line, with which the command is done.
\* A write to a full pipe blocks.  CL are the lines it may write in the
\* middle of a reply.
ToolStep(c, CL) ==
    LET q == process[c]
        cmd == Head(q.stdin)
    IN  /\ q.state = "running"
        /\ q.stdin # <<>>
        /\ cmd.kind = "blank" \/ Len(q.stdout) < MaxPipe
        /\ IF cmd.kind = "blank"
           THEN process' = [process EXCEPT ![c] =
                              [q EXCEPT !.state = "exited", !.stdin = <<>>,
                                        !.nrep = 0]]
           ELSE \E more \in {b \in BOOLEAN : b => q.nrep < MaxReply} :
                \E line \in (IF more THEN CL ELSE EndLines) :
                  process' = [process EXCEPT ![c] =
                     [q EXCEPT
                        !.stdout = Append(@, [text |-> line, by |-> cmd.by]),
                        !.stdin = IF more THEN @ ELSE Tail(@),
                        !.nrep = IF more THEN @ + 1 ELSE 0]]
        /\ UNCHANGED <<helper, ghc_opts, opt_args, xlat, project_backends, file_to_project, nclients, client,
                       lockHolder, hist, th>>

\* ghc-mod exits on its own (it crashed, it was killed); what it had not
\* read is lost, what it wrote can still be read.
ToolExit(c) ==
    /\ process[c].state = "running"
    /\ process' = [process EXCEPT ![c] =
                     [@ EXCEPT !.state = "exited", !.stdin = <<>>, !.nrep = 0]]
    /\ UNCHANGED <<helper, ghc_opts, opt_args, xlat, project_backends, file_to_project, nclients, client,
                   lockHolder, hist, th>>

\* The stderr drain's thread ends once the exited process's stderr is at
\* its end.
DrainEnd(c) ==
    /\ process[c].state = "exited"
    /\ client[c].stderr_drain = "alive"
    /\ client' = [client EXCEPT ![c].stderr_drain = "ended"]
    /\ UNCHANGED <<helper, ghc_opts, opt_args, xlat, project_backends, file_to_project, nclients, lockHolder,
                   process, hist, th>>

\* ------------------------------------------------------- the specifications

\* What one thread can do next, its calls being about the files FS.
Step(t, FS, cap) ==
    \/ \E f \in FS : AddProjectFile(t, f, cap)
    \/ AddCreate(t)
    \/ StopBackend(t)
    \/ StopNext(t)
    \/ \E f \in FS : Command(t, f)
    \/ \E f \in FS : \E with_contents \in BOOLEAN : Check(t, f, with_contents)
    \/ Resolve(t)
    \/ Acquire(t)
    \/ Write(t)
    \/ Read(t)
    \/ Readline(t)
    \/ ReadFault(t)

Tool(CL) ==
    \/ \E c \in Clients : ToolStep(c, CL)
    \/ \E c \in Clients : ToolExit(c)
    \/ \E c \in Clients : DrainEnd(c)

\* The threads of the editor call the backend concurrently, about one file
\* of one project.
Next ==
    \/ \E t \in Threads : Step(t, {"f1"}, MaxClientsConcurrent)
    \/ Tool(ContentLines)

Spec == Init /\ [][Next]_vars

\* One thread makes its calls one after the other, about any file.
NextSeq == Step("t1", Files, MaxClients) \/ Tool(ContentLines)

SpecSeq == Init /\ [][NextSeq]_vars

\* Two threads send commands to one session whose ghc-mod also writes lines
\* without a marker in the middle of its replies.
StepCommand(t) ==
    \/ AddProjectFile(t, "f1", MaxClientsConcurrent)
    \/ AddCreate(t)
    \/ Command(t, "f1")
    \/ Acquire(t)
    \/ Write(t)
    \/ Read(t)
    \/ Readline(t)
    \/ ReadFault(t)

NextStray == (\E t \in Threads : StepCommand(t)) \/ Tool(StrayLines)

SpecStray == Init /\ [][NextStray]_vars

\* read_response on its own: a thread that has written its command reads a
\* reply stream, any sequence of up to MaxStream lines, from a process that
\* wrote it and exited.
Streams == UNION {[1..n -> StreamLines] : n \in 1..MaxStream}

InitRead ==
    /\ project_backends = [p \in Projects |-> IF p = "p1" THEN 1 ELSE 0]
    /\ file_to_project = [f \in Files |-> IF f = "f1" THEN "p1" ELSE "none"]
    /\ nclients = 1
    /\ client = [c \in Clients |->
                   IF c = 1 THEN GHCModClient("p1", "proc") ELSE NoClient]
    /\ lockHolder = [c \in Clients |-> IF c = 1 THEN "t1" ELSE NoThread]
    /\ \E stream \in Streams :
          process = [c \in Clients |->
                       IF c = 1
                       THEN [state |-> "exited", stdin |-> <<>>, nrep |-> 0,
                             stdout |-> [i \in 1..Len(stream) |->
                                           [text |-> stream[i], by |-> "t1"]]]
                       ELSE NoProcess]
    /\ hist = [c \in Clients |-> NoHist]
    /\ th = [t \in Threads |->
               IF t = "t1"
               THEN [IdleThread EXCEPT !.pc = "read", !.op = "cmd",
                                       !.stage = "cmd", !.file = "f1",
                                       !.cl = 1, !.log = <<"cmd">>]
               ELSE IdleThread]
    /\ xlat = NoCall
    /\ helper = NoHelper
    /\ ghc_opts = <<>>
    /\ opt_args = [c \in Clients |-> <<>>]

NextRead == Read("t1") \/ Readline("t1")

SpecRead == InitRead /\ [][NextRead]_vars

\* One thread makes its calls about one file of one project and asks for
\* the languages of either project.
NextFacade ==
    \/ Step("t1", {"f1"}, MaxClientsConcurrent)
    \/ \E p \in Projects : Langs("t1", p)
    \/ Tool(ContentLines)

SpecFacade == Init /\ [][NextFacade]_vars

\* Two threads use the sessions of two projects, first use included: each
\* adds files of either project and sends commands.
StepProjects(t) ==
    \/ \E f \in Files : AddProjectFile(t, f, MaxClients)
    \/ AddCreate(t)
    \/ \E f \in Files : Command(t, f)
    \/ Acquire(t)
    \/ Write(t)
    \/ Read(t)
    \/ Readline(t)

ToolProjects ==
    \/ \E c \in Clients : ToolStep(c, {})
    \/ \E c \in Clients : ToolExit(c)

NextProjects == (\E t \in Threads : StepProjects(t)) \/ ToolProjects

SpecProjects == Init /\ [][NextProjects]_vars

\* --------------------------------------------------------------- properties

\* The raw lines of a sequence of pipe entries.
Texts(lines) == [i \in 1..Len(lines) |-> lines[i].text]

\* The stream thread t's read_response was given: the lines it consumed
\* followed by the lines it left in the pipe.
StreamOf(t) ==
    IF th[t].cl = 0 THEN <<>>
    ELSE Texts(th[t].seen) \o Texts(process[th[t].cl].stdout)

\* Thread t's command_backend call is over and gave a value.
Returned(t) ==
    th[t].pc = "idle" /\ th[t].op = "cmd" /\ th[t].got.kind = "value"

HasPrefix(l, marker) == Slice(l, 0, 3) = marker

HasMarker(l) ==
    HasPrefix(l, GHCMOD_OUTPUT_MARKER) \/ HasPrefix(l, GHCMOD_ERROR_MARKER)

\* A line without its three-character prefix and without its newline.
TextAfterPrefix(l) ==
    SubSeq(l, 4, IF l[Len(l)] = "\n" THEN Len(l) - 1 ELSE Len(l))

\* A line without its prefix and without trailing whitespace.
TextStripped(l) == rstrip(SliceFrom(l, 3))

\* The lines of st before position k that carry marker.
Marked(st, k, marker) ==
    SelectSeq(SubSeq(st, 1, k - 1), LAMBDA l : HasPrefix(l, marker))

\* A stream of O:/X: lines whose last line, and no earlier one, is `O: OK`.
ReplyEndingInOK(st) ==
    /\ st # <<>>
    /\ \A i \in 1..Len(st) : HasMarker(st[i])
    /\ st[Len(st)] = LineOK
    /\ \A i \in 1..(Len(st) - 1) : st[i] # LineOK

\* The channel of marker as the lines before the final `O: OK`, prefix
\* stripped.
ChannelAsStated(st, marker) ==
    LET sel == Marked(st, Len(st), marker)
    IN  [i \in 1..Len(sel) |-> TextAfterPrefix(sel[i])]

\* C1 as the specification states it: given a stream of O:/X: lines ending
\* in the line `O: OK`, read_response returns exactly the O: lines before it
\* on the output channel and the X: lines before it on the error channel, in
\* order, each with its prefix stripped.
C1_AsStated ==
    \A t \in Threads :
       Returned(t) /\ ReplyEndingInOK(StreamOf(t))
       => th[t].got = Value(ChannelAsStated(StreamOf(t), GHCMOD_OUTPUT_MARKER),
                            ChannelAsStated(StreamOf(t), GHCMOD_ERROR_MARKER))

\* An O: line whose text, trailing whitespace aside, is OK.
EndsReply(l) ==
    HasPrefix(l, GHCMOD_OUTPUT_MARKER) /\ TextStripped(l) = OK_TEXT

\* k is the first line of st that ends the reply, after O:/X: lines only.
FirstEnd(st, k) ==
    /\ k \in 1..Len(st)
    /\ EndsReply(st[k])
    /\ \A i \in 1..(k - 1) : HasMarker(st[i]) /\ ~EndsReply(st[i])

Channel(st, k, marker) ==
    LET sel == Marked(st, k, marker)
    IN  [i \in 1..Len(sel) |-> TextStripped(sel[i])]

\* C1: given a stream of O:/X: lines, read_response reads up to the first
\* O: line whose text after the prefix is OK once trailing whitespace is
\* stripped, and returns exactly the O: lines before it on the output
\* channel and the X: lines before it on the error channel, in order, each
\* with its prefix and its trailing whitespace stripped.
C1_ReadResponse ==
    \A t \in Threads :
       \A k \in 1..Len(StreamOf(t)) :
          Returned(t) /\ FirstEnd(StreamOf(t), k)
          => /\ Len(th[t].seen) = k
             /\ th[t].got = Value(Channel(StreamOf(t), k, GHCMOD_OUTPUT_MARKER),
                                  Channel(StreamOf(t), k, GHCMOD_ERROR_MARKER))

\* A reply with both channels, a line with trailing blanks and `O: OK` was
\* read to its end.
C1_Witness ==
    \E t \in Threads :
       /\ Returned(t)
       /\ StreamOf(t) = <<LineOASp, LineXE, LineOK>>
       /\ th[t].seen # <<>>
       /\ Len(th[t].got.out) = 1
       /\ Len(th[t].got.err) = 1

\* C4: a line with the NG prefix ends the read-reply loop at that line: the
\* call returns the lines accumulated before it and consumes nothing after
\* it.
C4_NGEndsLoop ==
    \A t \in Threads :
       \A i \in 1..Len(th[t].seen) :
          HasPrefix(th[t].seen[i].text, NG_MARKER)
          => /\ i = Len(th[t].seen)
             /\ th[t].fin = "ng"
             /\ th[t].pc \notin {"read", "readline"}
             /\ th[t].got =
                  Value(Channel(Texts(th[t].seen), i, GHCMOD_OUTPUT_MARKER),
                        Channel(Texts(th[t].seen), i, GHCMOD_ERROR_MARKER))

\* An NG line was read after an output line, with more lines behind it in
\* the pipe.
C4_Witness ==
    \E t \in Threads :
       /\ Len(th[t].seen) = 2
       /\ HasPrefix(th[t].seen[2].text, NG_MARKER)
       /\ th[t].got.out # <<>>
       /\ process[th[t].cl].stdout # <<>>

\* Thread t is inside a client method's with block.
InFlight(t) == th[t].pc \in {"write", "read", "readline"}

\* C2: on one session at most one thread is between writing a command and
\* the end of the read-reply loop, and the thread that is holds the
\* session's lock from before its write until its reply is read.
C2_OneInFlight ==
    \A t \in Threads :
       InFlight(t)
       => /\ lockHolder[th[t].cl] = t
          /\ \A u \in Threads \ {t} : ~(InFlight(u) /\ th[u].cl = th[t].cl)

\* One thread is reading its reply while the other waits for the session's
\* lock.
C2_Witness ==
    \E t, u \in Threads :
       /\ th[t].pc = "readline"
       /\ th[u].pc = "acquire"
       /\ th[u].cl = th[t].cl

\* C3 as the specification states it: a thread reads only lines ghc-mod
\* wrote in answer to that thread's own command: every line it consumes
\* answers a command it wrote, and when it writes to a running ghc-mod no
\* earlier command and no earlier line is left in the pipes.
C3_AsStated ==
    \A t \in Threads :
       /\ \A i \in 1..Len(th[t].seen) : th[t].seen[i].by = t
       /\ (th[t].pc = "write" /\ client[th[t].cl].ghcmod = "proc"
           /\ process[th[t].cl].state = "running")
          => process[th[t].cl].stdin = <<>> /\ process[th[t].cl].stdout = <<>>

\* C5 as the specification states it: a client method whose write or read
\* met an OSError, in the middle of a reply too, shuts the session down and
\* returns ([], []).
C5_AsStated ==
    \A t \in Threads :
       th[t].fin \in {"oserror", "write_oserror"}
       => /\ client[th[t].cl].ghcmod = "None"
          /\ th[t].got = Value(<<>>, <<>>)

\* C6 as the specification states it: a call on a session that was shut
\* down, made after the shutdown or waiting for the lock during it, returns
\* ([], []) and does not raise.
C6_AsStated ==
    \A t \in Threads :
       (th[t].fin \in {"with_none", "write_none"}
        /\ client[th[t].cl].ghcmod = "None")
       => th[t].got = Value(<<>>, <<>>)

\* C7 as the specification states it: when the read-reply loop ended at the
\* end of the stream, the session is dead when the call returns.
C7_AsStated ==
    \A t \in Threads :
       th[t].fin = "eof"
       => /\ client[th[t].cl].ghcmod = "None"
          /\ ~client[th[t].cl].action_lock
          /\ client[th[t].cl].stderr_drain = "None"

\* C8 as the specification states it: shutdown is idempotent: over all its
\* invocations on a session the blank line is written at most once and the
\* drain stopped at most once, no invocation raises, and the three fields
\* are None after each.
C8_AsStated ==
    \A c \in Clients :
       hist[c].calls >= 1
       => /\ ~hist[c].raised
          /\ hist[c].writes <= 1
          /\ hist[c].stops <= 1
          /\ client[c].ghcmod = "None"
          /\ ~client[c].action_lock
          /\ client[c].stderr_drain = "None"

\* The same for the sessions whose subprocess started.
C8_StartedSessions ==
    \A c \in Clients :
       (hist[c].calls >= 1 /\ client[c].ghcmod # "noproc")
       => /\ ~hist[c].raised
          /\ hist[c].writes <= 1
          /\ hist[c].stops <= 1
          /\ client[c].ghcmod = "None"
          /\ ~client[c].action_lock
          /\ client[c].stderr_drain = "None"

\* C9: when translate_regex_output has mapped the file's contents
\* (backend_map_file returned), backend_unmap_file is attempted after the
\* analysis command however the command ended, by a value or by an
\* exception.
C9_UnmapAttempted ==
    \A t \in Threads :
       (th[t].op = "check" /\ th[t].pc = "idle" /\ th[t].mapped_file)
       => th[t].log = <<"map", "cmd", "unmap">>

\* The analysis command raised after the contents were mapped, and
\* translate_regex_output is over.
C9_Witness ==
    \E t \in Threads :
       /\ th[t].op = "check" /\ th[t].pc = "idle" /\ th[t].mapped_file
       /\ th[t].pending.kind = "raise"
       /\ th[t].log = <<"map", "cmd", "unmap">>

\* C10: add_project_file is idempotent per project: a client is constructed
\* only for a project that has no entry in the registry, and an entry that
\* is there is never replaced by another client (stop_backend alone removes
\* it).
C10_OneSessionPerProject ==
    [][/\ \A p \in Projects :
             project_backends[p] # 0
             => project_backends'[p] \in {project_backends[p], 0}
       /\ nclients' # nclients
          => project_backends[client'[nclients'].project] = 0]_vars

\* add_project_file returned without constructing anything, for a project
\* that had its session, both projects having one.
C10_Witness ==
    /\ th["t1"].op = "add" /\ th["t1"].pc = "idle"
    /\ th["t1"].ret.kind = "value" /\ th["t1"].cl = 0
    /\ nclients = 2
    /\ \A p \in Projects : project_backends[p] # 0

\* C11 as the specification states it: under concurrent first use exactly
\* one session is created per project: every GHCModClient whose subprocess
\* was started is the registry's entry of its project, none was overwritten
\* or left outside the registry.  (No stop_backend runs here.)
C11_AsStated ==
    \A c \in 1..nclients :
       process[c].state # "none" => project_backends[client[c].project] = c

\* C12 as the specification states it: a session's stdin and stdout are
\* written and read only by a thread that holds the session's lock, the
\* blank line of shutdown included.
C12_AsStated ==
    /\ \A c \in Clients : ~hist[c].unlocked
    /\ \A t \in Threads : InFlight(t) => lockHolder[th[t].cl] = t

\* C13 as the specification states it: the registry holds a project only
\* if the subprocess of its session was started.
C13_AsStated ==
    \A p \in Projects :
       project_backends[p] # 0 => process[project_backends[p]].state # "none"

\* Thread t's read-reply loop ends at an NG line in this step, on a session
\* nobody has shut down.
ReadsNG(t) ==
    /\ th[t].pc = "readline"
    /\ th'[t].fin = "ng"
    /\ client[th[t].cl].ghcmod = "proc"

\* Thread t writes a command in this step to a live session that has
\* answered NG before.
WritesAfterNG(t) ==
    /\ th[t].pc = "write"
    /\ hist[th[t].cl].ng
    /\ client[th[t].cl].ghcmod = "proc"
    /\ process[th[t].cl].state = "running"
    /\ th'[t] # th[t]

\* C14: the step in which a call reads an NG reply leaves the session as it
\* is (no shutdown, process, lock and drain in place) and releases the lock;
\* a command that follows on the session is written to ghc-mod, which has
\* nothing of the earlier command left in its pipes.
C14_AliveAfterNG ==
    [][\A t \in Threads :
          /\ ReadsNG(t)
             => /\ client'[th[t].cl] = client[th[t].cl]
                /\ client'[th[t].cl].ghcmod = "proc"
                /\ client'[th[t].cl].action_lock
                /\ client'[th[t].cl].stderr_drain # "None"
                /\ hist'[th[t].cl].calls = hist[th[t].cl].calls
                /\ process'[th[t].cl].state = process[th[t].cl].state
                /\ lockHolder[th[t].cl] = t
                /\ lockHolder'[th[t].cl] = NoThread
          /\ WritesAfterNG(t)
             => /\ process[th[t].cl].stdin = <<>>
                /\ process[th[t].cl].stdout = <<>>
                /\ process'[th[t].cl].stdin = <<written(th[t], t)>>
                /\ th'[t].pc = "read"]_vars

\* After an NG reply on the session, the same thread's next command got a
\* reply of one output line ended by `O: OK`.
C14_Witness ==
    \E t \in Threads :
       /\ Returned(t)
       /\ th[t].cl # 0
       /\ hist[th[t].cl].ng
       /\ hist[th[t].cl].calls = 0
       /\ th[t].fin = "ok"
       /\ th[t].got = Value(<<TextStripped(LineOA)>>, <<>>)
       /\ \A u \in Threads \ {t} : th[u].op \notin {"cmd", "check"}

\* C15 as the specification states it: when stop_backend is over, it has
\* not raised, the registry is empty and every session that was constructed
\* is shut down, whatever the registry held.  (One thread makes the calls.)
C15_AsStated ==
    \A t \in Threads :
       (th[t].op = "stop" /\ th[t].pc = "idle")
       => /\ th[t].ret.kind = "value"
          /\ \A p \in Projects : project_backends[p] = 0
          /\ \A c \in 1..nclients : client[c].ghcmod = "None"

\* C16 as the specification states it: an operation that found no session,
\* langs for its project name or the facade's command_backend for its file,
\* does not raise and gives the empty result.
C16_AsStated ==
    \A t \in Threads :
       (th[t].pc = "idle" /\ th[t].op \in {"langs", "cmd"} /\ th[t].cl = 0)
       => th[t].ret = Value(<<>>, <<>>)

\* The registry's entry of project p is a session shutdown() has run on.
DeadEntry(p) ==
    /\ project_backends[p] # 0
    /\ client[project_backends[p]].ghcmod = "None"
    /\ hist[project_backends[p]].calls >= 1

\* C17: a dead session is not re-created implicitly: while a project's
\* registry entry is a dead session, no step constructs a client for that
\* project, the entry stays that same dead session, and only stop_backend
\* takes it out of the registry.
C17_DeadStaysDead ==
    [][\A p \in Projects :
          DeadEntry(p)
          => /\ nclients' # nclients => client'[nclients'].project # p
             /\ project_backends'[p] \in {project_backends[p], 0}
             /\ project_backends'[p] # 0 => DeadEntry(p)'
             /\ project_backends'[p] = 0
                => \E t \in Threads : th[t].pc = "stop" /\ th'[t].pc = "idle"]_vars

\* add_project_file returned, having constructed nothing, for a project
\* whose entry is a dead session.
C17_Witness ==
    \E t \in Threads :
       /\ th[t].op = "add" /\ th[t].pc = "idle" /\ th[t].cl = 0
       /\ th[t].ret.kind = "value"
       /\ DeadEntry(ProjectOf(th[t].file))

\* C18: sessions do not block each other: a thread waiting for a session's
\* lock can take it whenever no thread is inside a command on that very
\* session, whatever is held, for however long, on other sessions.
C18_NoCrossBlocking ==
    \A t \in Threads :
       (th[t].pc = "acquire"
        /\ \A u \in Threads \ {t} : ~(InFlight(u) /\ th[u].cl = th[t].cl))
       => LockFree(th[t].cl)

\* One thread holds the lock of a session whose ghc-mod does not answer,
\* while the other holds the lock of another project's session and has read
\* its reply's `O: OK`.
C18_Witness ==
    \E t, u \in Threads :
       /\ th[t].pc = "readline"
       /\ lockHolder[th[t].cl] = t
       /\ process[th[t].cl].state = "running"
       /\ process[th[t].cl].stdout = <<>>
       /\ th[u].pc = "readline"
       /\ lockHolder[th[u].cl] = u
       /\ client[th[u].cl].project # client[th[t].cl].project
       /\ process[th[u].cl].stdout # <<>>
       /\ Head(process[th[u].cl].stdout).text = LineOK

\* ---------------------------------------------------------------------
\* The translators of ghc-mod's output. A text is the sequence of its
\* characters.
\* ---------------------------------------------------------------------

\* str.startswith.
startswith(s, prefix) ==
    Len(s) >= Len(prefix) /\ SubSeq(s, 1, Len(prefix)) = prefix

\* os.path.isabs of a POSIX host.
isabs(s) == startswith(s, <<"/">>)

\* os.path.join(a, b) of a POSIX host.
join(a, b) ==
    IF startswith(b, <<"/">>) THEN b
    ELSE IF a = <<>> \/ a[Len(a)] = "/" THEN a \o b
    ELSE a \o <<"/">> \o b

\* path.split('/').
RECURSIVE split(_)
split(s) ==
    IF \A i \in 1..Len(s) : s[i] # "/" THEN <<s>>
    ELSE LET i == CHOOSE j \in 1..Len(s) :
                      s[j] = "/" /\ \A k \in 1..(j - 1) : s[k] # "/"
         IN  <<SubSeq(s, 1, i - 1)>> \o split(SubSeq(s, i + 1, Len(s)))

\* The loop of os.path.normpath over the components.
RECURSIVE new_comps(_, _, _)
new_comps(comps, initial_slashes, acc) ==
    IF comps = <<>> THEN acc
    ELSE LET comp == Head(comps)
             nxt == IF comp \in {<<>>, <<".">>} THEN acc
                    ELSE IF \/ comp # <<".", ".">>
                            \/ (initial_slashes = 0 /\ acc = <<>>)
                            \/ (acc # <<>> /\ acc[Len(acc)] = <<".", ".">>)
                    THEN Append(acc, comp)
                    ELSE IF acc # <<>> THEN SubSeq(acc, 1, Len(acc) - 1)
                    ELSE acc
         IN  new_comps(Tail(comps), initial_slashes, nxt)

\* '/'.join(comps).
RECURSIVE joined(_)
joined(comps) ==
    IF comps = <<>> THEN <<>>
    ELSE IF Len(comps) = 1 THEN comps[1]
    ELSE comps[1] \o <<"/">> \o joined(Tail(comps))

\* os.path.normpath of a POSIX host.
normpath(path) ==
    IF path = <<>> THEN <<".">>
    ELSE LET initial_slashes ==
                 IF ~startswith(path, <<"/">>) THEN 0
                 ELSE IF /\ startswith(path, <<"/", "/">>)
                         /\ ~startswith(path, <<"/", "/", "/">>)
                 THEN 2
                 ELSE 1
             p == joined(new_comps(split(path), initial_slashes, <<>>))
             q == IF initial_slashes = 0 THEN p
                  ELSE IF initial_slashes = 1 THEN <<"/">> \o p
                  ELSE <<"/", "/">> \o p
         IN  IF q = <<>> THEN <<".">> ELSE q

\* The file name the two translators give their record: a name that is not
\* absolute is joined to the project directory and normalised.
reconcile_normalising(project_dir, filename) ==
    normpath(join(project_dir, filename))

reconcile(project_dir, filename) ==
    IF ~isabs(filename) THEN normpath(join(project_dir, filename))
    ELSE filename

\* The character of text at position k, "" past its ends.
at(text, k) == IF k \in 1..Len(text) THEN text[k] ELSE ""

\* Where the longest run of characters of S that starts at position p ends:
\* p - 1 when the run is empty. A greedy \s*, \s+ or \d+.
run_in(text, p, S) ==
    CHOOSE q \in (p - 1)..Len(text) :
        /\ \A k \in p..q : text[k] \in S
        /\ at(text, q + 1) \notin S

\* Where the line that position p is on ends: a greedy `.*$` under
\* re.MULTILINE stops before the next newline.
line_end(text, p) ==
    CHOOSE q \in (p - 1)..Len(text) :
        /\ \A k \in p..q : text[k] # "\n"
        /\ (q = Len(text) \/ text[q + 1] = "\n")

Digits == {"0", "1", "2", "3", "4", "5", "6", "7", "8", "9"}

DigitChars == <<"0", "1", "2", "3", "4", "5", "6", "7", "8", "9">>

\* int() of a text of digits.
RECURSIVE int(_)
int(s) ==
    LET digit(c) == (CHOOSE i \in 1..Len(DigitChars) : DigitChars[i] = c) - 1
    IN  IF Len(s) = 1 THEN digit(s[1])
        ELSE 10 * int(SubSeq(s, 1, Len(s) - 1)) + digit(s[Len(s)])

UpperCase ==
    <<"A", "B", "C", "D", "E", "F", "G", "H", "I", "J", "K", "L", "M",
      "N", "O", "P", "Q", "R", "S", "T", "U", "V", "W", "X", "Y", "Z">>

LowerCase ==
    <<"a", "b", "c", "d", "e", "f", "g", "h", "i", "j", "k", "l", "m",
      "n", "o", "p", "q", "r", "s", "t", "u", "v", "w", "x", "y", "z">>

\* str.lower.
lower(s) ==
    [i \in 1..Len(s) |->
        IF \E k \in 1..Len(UpperCase) : UpperCase[k] = s[i]
        THEN LowerCase[CHOOSE k \in 1..Len(UpperCase) : UpperCase[k] = s[i]]
        ELSE s[i]]

\* group() of a group that took no part in the match: None. No text has an
\* element of more than one character.
NoGroup == <<"None">>

\* A text the pattern does not match.
NoMatch == [matched |-> FALSE]

Star == <<"*">>

WarningFlags ==
    { <<"W", "a", "r", "n", "i", "n", "g", ":">>,
      <<"w", "a", "r", "n", "i", "n", "g", ":">> }

\* The groups of `:(?P<line>\d+):(?P<col>\d+):`: the two numbers end at
\* positions l and c.
col_after(text, l, c) ==
    IF c < l + 2 \/ at(text, c + 1) # ":" THEN NoMatch
    ELSE [matched |-> TRUE, l |-> l, c |-> c]

line_after(text, i, l) ==
    IF l < i + 2 \/ at(text, l + 1) # ":" THEN NoMatch
    ELSE col_after(text, l, run_in(text, l + 2, Digits))

\* `:(?P<line>\d+):(?P<col>\d+):` tried after the first i characters: the
\* ends of the two numbers, or NoMatch.
line_col(text, i) ==
    IF at(text, i + 1) # ":" THEN NoMatch
    ELSE line_after(text, i, run_in(text, i + 2, Digits))

\* The largest number of a set: what a greedy quantifier keeps after it
\* has given characters back.
Greediest(S) == CHOOSE x \in S : \A y \in S : y <= x

\* Where `(?P<file>\S*)` may end when it starts after position k and
\* line and column follow.
file_ends(text, k) ==
    {i \in k..Len(text) :
        /\ \A j \in (k + 1)..i : text[j] \notin Whitespace
        /\ line_col(text, i) # NoMatch}

\* Where `\s*^` may end at the start of the text with a match after it.
file_starts(text) ==
    {k \in 0..Len(text) :
        /\ \A j \in 1..k : text[j] \in Whitespace
        /\ (k = 0 \/ text[k] = "\n")
        /\ file_ends(text, k) # {}}

header_groups(text, k, i, n) ==
    [matched |-> TRUE,
     file |-> SubSeq(text, k + 1, i),
     line |-> SubSeq(text, i + 2, n.l),
     col |-> SubSeq(text, n.l + 2, n.c),
     end |-> n.c + 1]

header_at(text, k, i) == header_groups(text, k, i, line_col(text, i))

header_from(text, k) == header_at(text, k, Greediest(file_ends(text, k)))

\* `\s*^(?P<file>\S*):(?P<line>\d+):(?P<col>\d+):` matched at the start of
\* the text: both \s* and \S* are greedy and give characters back until
\* the rest matches. end is the position of the third colon.
FILE_LINE_COL(text) ==
    IF file_starts(text) = {} THEN NoMatch
    ELSE header_from(text, Greediest(file_starts(text)))

\* `(?P<flag>\*|[Ww]arning:)` at position a.
flag_at(text, a) ==
    IF at(text, a) = "*" THEN Star
    ELSE IF a + 7 <= Len(text) /\ SubSeq(text, a, a + 7) \in WarningFlags
    THEN SubSeq(text, a, a + 7)
    ELSE NoGroup

\* The flag must be followed by whitespace, at position b.
flag_then_space(text, e, flag, b) ==
    IF flag = NoGroup \/ at(text, b) \notin Whitespace
    THEN [flag |-> NoGroup, b |-> e + 1, last |-> e]
    ELSE [flag |-> flag, b |-> b, last |-> run_in(text, b, Whitespace)]

flag_from(text, e, a) ==
    flag_then_space(text, e, flag_at(text, a), a + Len(flag_at(text, a)))

\* `(\s*(?P<flag>\*|[Ww]arning:)\s+)?` tried after position e: the flag and
\* the whitespace that follows it, from position b to position last.
flag_group(text, e) == flag_from(text, e, run_in(text, e + 1, Whitespace) + 1)

\* Where the whitespace and the line that start at position p end.
indented_line_end(text, p) ==
    line_end(text, run_in(text, p, Whitespace) + 1)

\* `(\n^(?:\*?\s+).*$)*` after a line that ends at position q: where the
\* last continuation line ends.
RECURSIVE continuation_end(_, _)
continuation_end(text, q) ==
    IF at(text, q + 1) # "\n" THEN q
    ELSE IF at(text, q + 2) = "*"
    THEN IF at(text, q + 3) \notin Whitespace THEN q
         ELSE continuation_end(text, indented_line_end(text, q + 3))
    ELSE IF at(text, q + 2) \notin Whitespace THEN q
         ELSE continuation_end(text, indented_line_end(text, q + 2))

\* The groups of GHC_CHECK_REGEX after the header h and the flag group g.
check_groups(text, h, g) ==
    [matched |-> TRUE, file |-> h.file, line |-> h.line, col |-> h.col,
     flag |-> g.flag,
     details |-> SubSeq(text, g.last + 1,
                     continuation_end(text, line_end(text, g.last + 1)))]

check_after_header(text, h) == check_groups(text, h, flag_group(text, h.end))

\* GHC_CHECK_REGEX matched at the start of the text: its groups.
GHC_CHECK_REGEX(text) ==
    IF FILE_LINE_COL(text) = NoMatch THEN NoMatch
    ELSE check_after_header(text, FILE_LINE_COL(text))

\* The groups of GHC_LINT_REGEX when the message starts at position m and
\* ends at position q: the details need a newline after the message.
lint_groups(text, h, flag, m, q) ==
    IF q = Len(text) THEN NoMatch
    ELSE [matched |-> TRUE, file |-> h.file, line |-> h.line, col |-> h.col,
          flag |-> flag,
          msg |-> SubSeq(text, m, q),
          details |-> SubSeq(text, q + 1, Len(text))]

lint_message(text, h, flag, m) ==
    lint_groups(text, h, flag, m, line_end(text, m))

\* The whitespace after the flag gives characters back, and then the flag
\* itself, until there is a newline after the message.
lint_with_flag(text, h, g, with_flag) ==
    IF g.flag # NoGroup /\ with_flag # {}
    THEN lint_message(text, h, g.flag, Greediest(with_flag) + 1)
    ELSE lint_message(text, h, NoGroup, h.end + 1)

lint_after_flag(text, h, g) ==
    lint_with_flag(text, h, g,
        {j \in g.b..g.last : line_end(text, j + 1) < Len(text)})

lint_after_header(text, h) == lint_after_flag(text, h, flag_group(text, h.end))

\* GHC_LINT_REGEX matched at the start of the text: its groups.
GHC_LINT_REGEX(text) ==
    IF FILE_LINE_COL(text) = NoMatch THEN NoMatch
    ELSE lint_after_header(text, FILE_LINE_COL(text))

\* level_type of translate_check.
level_type_case_sensitive(flag) ==
    IF flag = NoGroup \/ ~startswith(flag, <<"w", "a", "r", "n", "i", "n", "g">>)
    THEN "error"
    ELSE "warning"

level_type(flag) ==
    IF flag = NoGroup \/ ~startswith(lower(flag), <<"w", "a", "r", "n", "i", "n", "g">>)
    THEN "error"
    ELSE "warning"

\* The region of a record: column 1 to the reported column of the line.
region(line, column) ==
    [from |-> [column |-> 1, line |-> line],
     to |-> [column |-> column, line |-> line]]

translate_check(project_dir, errmsg) ==
    [level |-> level_type(errmsg.flag),
     note |-> [message |-> errmsg.details, suggestions |-> "None"],
     region |-> region(int(errmsg.line), int(errmsg.col)),
     source |-> [file |-> reconcile(project_dir, errmsg.file),
                 project |-> "None"]]

translate_lint_summary_only(project_dir, errmsg) ==
    [level |-> "hint",
     note |-> [message |-> errmsg.msg, suggestions |-> "None"],
     region |-> region(int(errmsg.line), int(errmsg.col)),
     source |-> [file |-> reconcile(project_dir, errmsg.file),
                 project |-> "None"]]

translate_lint(project_dir, errmsg) ==
    [level |-> "hint",
     note |-> [message |-> errmsg.msg \o errmsg.details,
               suggestions |-> "None"],
     region |-> region(int(errmsg.line), int(errmsg.col)),
     source |-> [file |-> reconcile(project_dir, errmsg.file),
                 project |-> "None"]]

\* The project directories a caller supplies.
ProjectDirs ==
    { <<"/", "p", "r", "o", "j">>,
      <<"/", "p", "r", "o", "j", "/">>,
      <<"/">>,
      <<"/", "p", "r", "o", "j", "/", "s", "u", "b">>,
      <<"p", "r", "o", "j">> }

\* The file names ghc-mod reports.
ReportedFiles ==
    { <<"F", "o", "o", ".", "h", "s">>,
      <<"s", "r", "c", "/", "F", "o", "o", ".", "h", "s">>,
      <<".", "/", "F", "o", "o", ".", "h", "s">>,
      <<".", ".", "/", "F", "o", "o", ".", "h", "s">>,
      <<"/", "p", "r", "o", "j", "/", "F", "o", "o", ".", "h", "s">>,
      <<"/", "a", "/", ".", ".", "/", "F", "o", "o", ".", "h", "s">>,
      <<"/", "/", "F", "o", "o", ".", "h", "s">>,
      <<>> }

\* The line numbers ghc-mod reports.
ReportedLines ==
    { <<"3">>,
      <<"1", "0">>,
      <<"0", "3">> }

\* The column numbers ghc-mod reports.
ReportedColumns ==
    { <<"7">>,
      <<"1">> }

\* What ghc-mod writes after the third colon.
ReportedRests ==
    { <<" ", "W", "a", "r", "n", "i", "n", "g", ":", " ", "x", " ", "s", "h", "a", "d", "o", "w", "s", " ", "y">>,
      <<" ", "w", "a", "r", "n", "i", "n", "g", ":", " ", " ", "x">>,
      <<"W", "a", "r", "n", "i", "n", "g", ":", " ", "x">>,
      <<" ", "*", " ", "x">>,
      <<" ", "x">>,
      <<>>,
      <<" ", "W", "a", "r", "n", "i", "n", "g", ":">>,
      <<" ", "W", "A", "R", "N", "I", "N", "G", ":", " ", "x">>,
      <<" ", "W", "a", "r", "n", "i", "n", "g", ":", "\n", " ", " ", "x">>,
      <<" ", "x", "\n", " ", " ", "y", "\n", "z">>,
      <<"*", "x">>,
      <<" ", "E", "t", "a", " ", "r", "e", "d", "u", "c", "e", "\n", "F", "o", "u", "n", "d", ":", " ", "f">> }

\* ghc-mod's replies to check and lint, joined by newlines.
Outputs ==
    { f \o <<":">> \o l \o <<":">> \o c \o <<":">> \o r :
        f \in ReportedFiles, l \in ReportedLines, c \in ReportedColumns,
        r \in ReportedRests }

\* A translator is about to be given the first match of a reply.
InitTranslate ==
    /\ project_backends = [p \in Projects |-> 0]
    /\ file_to_project = [f \in Files |-> "none"]
    /\ nclients = 0
    /\ client = [c \in Clients |-> NoClient]
    /\ lockHolder = [c \in Clients |-> NoThread]
    /\ process = [c \in Clients |-> NoProcess]
    /\ hist = [c \in Clients |-> NoHist]
    /\ th = [t \in Threads |-> IdleThread]
    /\ xlat \in [kind : {"input"}, project_dir : ProjectDirs, text : Outputs]
    /\ helper = NoHelper
    /\ ghc_opts = <<>>
    /\ opt_args = [c \in Clients |-> <<>>]

\* The call and what it returned.
Translated(kind, project_dir, text, errmsg, ret) ==
    [kind |-> kind, project_dir |-> project_dir, text |-> text,
     errmsg |-> errmsg, ret |-> ret]

xlat_check(project_dir, text, m) ==
    Translated("check", project_dir, text, m, translate_check(project_dir, m))

xlat_lint(project_dir, text, m) ==
    Translated("lint", project_dir, text, m, translate_lint(project_dir, m))

\* xlat_func(project_dir, m) of translate_regex_output, for check.
TranslateCheck ==
    /\ xlat.kind = "input"
    /\ GHC_CHECK_REGEX(xlat.text) # NoMatch
    /\ xlat' = xlat_check(xlat.project_dir, xlat.text,
                          GHC_CHECK_REGEX(xlat.text))
    /\ UNCHANGED <<helper, ghc_opts, opt_args, project_backends,
                   file_to_project, nclients, client, lockHolder, process,
                   hist, th>>

\* xlat_func(project_dir, m) of translate_regex_output, for lint.
TranslateLint ==
    /\ xlat.kind = "input"
    /\ GHC_LINT_REGEX(xlat.text) # NoMatch
    /\ xlat' = xlat_lint(xlat.project_dir, xlat.text,
                         GHC_LINT_REGEX(xlat.text))
    /\ UNCHANGED <<helper, ghc_opts, opt_args, project_backends,
                   file_to_project, nclients, client, lockHolder, process,
                   hist, th>>

NextTranslate == TranslateCheck \/ TranslateLint

SpecTranslate == InitTranslate /\ [][NextTranslate]_vars

\* Where a component of a path leads from the place loc, a place being the
\* sequence of directory names under the root.
Enter_component(loc, comp) ==
    IF comp \in {<<>>, <<".">>} THEN loc
    ELSE IF comp = <<".", ".">>
    THEN IF loc = <<>> THEN loc ELSE SubSeq(loc, 1, Len(loc) - 1)
    ELSE Append(loc, comp)

\* Where the path s leads from the place loc, comp being the component read
\* so far.
RECURSIVE Walk(_, _, _)
Walk(loc, comp, s) ==
    IF s = <<>> THEN Enter_component(loc, comp)
    ELSE IF Head(s) = "/" THEN Walk(Enter_component(loc, comp), <<>>, Tail(s))
    ELSE Walk(loc, Append(comp, Head(s)), Tail(s))

\* The place an absolute path names.
Place(s) == Walk(<<>>, <<>>, s)

\* A path with no empty component and no component `.` or `..`; a clean
\* directory may end in a slash.
CleanDir(s) ==
    /\ s # <<>>
    /\ \A i \in 1..Len(s) :
        /\ s[i] = "/" => (i = Len(s) \/ s[i + 1] # "/")
        /\ s[i] = "." => (i > 1 /\ s[i - 1] \notin {"/", "."})

PlainName(s) == CleanDir(s) /\ s[1] # "/" /\ s[Len(s)] # "/"

\* The directory with the name under it.
Under(dir, name) ==
    IF dir[Len(dir)] = "/" THEN dir \o name ELSE dir \o <<"/">> \o name

FooHs == <<"F", "o", "o", ".", "h", "s">>

Proj == <<"/", "p", "r", "o", "j">>

ProjFooHs == <<"/", "p", "r", "o", "j", "/", "F", "o", "o", ".", "h", "s">>

\* C19: in the record translate_check or translate_lint returns, a reported
\* file name that is absolute is the record's file name unchanged; one that
\* is not absolute is resolved against the project directory: a plain name
\* gives the directory with the name under it (/proj and Foo.hs give
\* /proj/Foo.hs), and any name under an absolute directory gives an absolute
\* path to the place the name leads to from that directory.
C19_PathReconciled ==
    xlat.kind \in {"check", "lint"} =>
        LET reported == xlat.errmsg.file
            dir == xlat.project_dir
            file == xlat.ret.source.file
        IN  /\ startswith(reported, <<"/">>) => file = reported
            /\ ~startswith(reported, <<"/">>) =>
                /\ PlainName(reported) /\ CleanDir(dir) =>
                       file = Under(dir, reported)
                /\ startswith(dir, <<"/">>) =>
                       /\ startswith(file, <<"/">>)
                       /\ Place(file) = Walk(Place(dir), <<>>, reported)
            /\ (dir = Proj /\ reported = FooHs) => file = ProjFooHs

\* translate_lint was given /proj and the relative Foo.hs and returned
\* /proj/Foo.hs.
C19_Witness ==
    /\ xlat.kind = "lint"
    /\ xlat.project_dir = Proj
    /\ xlat.errmsg.file = FooHs
    /\ xlat.ret.source.file = ProjFooHs

\* translate_check was given an absolute name that is not normalised and
\* returned it as it was.
C19_WitnessAbsolute ==
    /\ xlat.kind = "check"
    /\ xlat.errmsg.file = <<"/", "a", "/", ".", ".", "/", "F", "o", "o", ".", "h", "s">>
    /\ xlat.ret.source.file = xlat.errmsg.file

\* The number a text of digits denotes, read from the left.
RECURSIVE Denotes(_, _)
Denotes(n, s) ==
    IF s = <<>> THEN n
    ELSE Denotes(10 * n + (CHOOSE d \in 0..9 : DigitChars[d + 1] = Head(s)),
                 Tail(s))

\* s ends with suffix.
EndsWith(s, suffix) ==
    /\ Len(s) >= Len(suffix)
    /\ SubSeq(s, Len(s) - Len(suffix) + 1, Len(s)) = suffix

XShadowsY == <<"x", " ", "s", "h", "a", "d", "o", "w", "s", " ", "y">>

CapitalWarning == <<"W", "a", "r", "n", "i", "n", "g", ":">>

SmallWarning == <<"w", "a", "r", "n", "i", "n", "g", ":">>

\* C20: the record translate_check returns for a match of the check grammar
\* has level warning exactly when the flag is present and is Warning: or
\* warning:, and level error otherwise (no flag, or the flag *); its region
\* goes from column 1 to the reported column on the reported line; and its
\* message is the details: the text that ends the match, after the flag and
\* its whitespace when there is a flag, after the third colon when not.
C20_CheckRecord ==
    xlat.kind = "check" =>
        LET m == xlat.errmsg
            r == xlat.ret
            line == Denotes(0, m.line)
            column == Denotes(0, m.col)
            header == m.file \o <<":">> \o m.line \o <<":">> \o m.col \o <<":">>
            MessageAfter(before) ==
                /\ startswith(xlat.text, before \o r.note.message)
                /\ m.flag = NoGroup => before = header
                /\ m.flag # NoGroup =>
                       LET flagged == rstrip(before)
                       IN  /\ flagged # before
                           /\ EndsWith(flagged, m.flag)
                           /\ rstrip(SubSeq(flagged, 1, Len(flagged) - Len(m.flag)))
                                  = header
                           /\ at(r.note.message, 1) \notin Whitespace
        IN  /\ r.level = "warning" <=> m.flag \in {CapitalWarning, SmallWarning}
            /\ r.level = "error" <=> m.flag \in {NoGroup, <<"*">>}
            /\ r.region.from = [column |-> 1, line |-> line]
            /\ r.region.to = [column |-> column, line |-> line]
            /\ r.note.message = m.details
            /\ \E n \in 0..Len(xlat.text) : MessageAfter(SubSeq(xlat.text, 1, n))

\* The reply `Foo.hs:3:7: Warning: x shadows y` under /proj gave a warning
\* from column 1 to column 7 of line 3 with the message `x shadows y`.
C20_Witness ==
    /\ xlat.kind = "check"
    /\ xlat.project_dir = Proj
    /\ xlat.text = FooHs \o <<":", "3", ":", "7", ":", " ">> \o CapitalWarning
                       \o <<" ">> \o XShadowsY
    /\ xlat.ret.level = "warning"
    /\ xlat.ret.region = [from |-> [column |-> 1, line |-> 3],
                          to |-> [column |-> 7, line |-> 3]]
    /\ xlat.ret.note.message = XShadowsY
    /\ xlat.ret.source.file = ProjFooHs

EtaReduce == <<" ", "E", "t", "a", " ", "r", "e", "d", "u", "c", "e">>

FoundF == <<"\n", "F", "o", "u", "n", "d", ":", " ", "f">>

\* C21: the record translate_lint returns for a match of the lint grammar
\* has level hint and no suggestions, and its message is the rest of the
\* reply: the summary, which is what is left of the first line after the
\* third colon (after the flag when a flag took part), followed by every
\* continuation line, of which there is at least one.
C21_LintRecord ==
    xlat.kind = "lint" =>
        LET m == xlat.errmsg
            r == xlat.ret
            message == r.note.message
            header == m.file \o <<":">> \o m.line \o <<":">> \o m.col \o <<":">>
            before == SubSeq(xlat.text, 1, Len(xlat.text) - Len(message))
            first == CHOOSE i \in 1..(Len(message) + 1) :
                         /\ at(message, i) \in {"\n", ""}
                         /\ \A j \in 1..(i - 1) : message[j] # "\n"
        IN  /\ r.level = "hint"
            /\ r.note.suggestions = "None"
            /\ Len(message) <= Len(xlat.text)
            /\ xlat.text = before \o message
            /\ m.flag = NoGroup => before = header
            /\ m.flag # NoGroup =>
                   /\ EndsWith(rstrip(before), m.flag)
                   /\ rstrip(SubSeq(rstrip(before), 1,
                                    Len(rstrip(before)) - Len(m.flag))) = header
            /\ first <= Len(message)
            /\ SubSeq(message, 1, first - 1) = m.msg
            /\ SubSeq(message, first, Len(message)) = m.details

\* The reply `Foo.hs:10:1: Eta reduce\nFound: f` gave a hint whose message
\* has both the summary and the continuation line.
C21_Witness ==
    /\ xlat.kind = "lint"
    /\ xlat.text = FooHs \o <<":", "1", "0", ":", "1", ":">> \o EtaReduce \o FoundF
    /\ xlat.ret.level = "hint"
    /\ xlat.ret.note.message = EtaReduce \o FoundF
    /\ xlat.ret.region = [from |-> [column |-> 1, line |-> 10],
                          to |-> [column |-> 1, line |-> 10]]

\* ---------------------------------------------------------------------
\* ProcHelper.__init__
\* ---------------------------------------------------------------------

\* The errno of the OSError subprocess.Popen may raise.
Errnos == {"EPIPE", "ENOENT", "EACCES"}

\* What subprocess.Popen does: it returns the process or raises an OSError.
PopenOutcomes == {"ok"} \cup Errnos

\* What Which.which(command, PATH) returns: the normalised command or None.
WhichOutcomes == {"found", "None"}

\* The stdout and stderr a caller passes in popen_kwargs.
StdoutArgs == {"None", "PIPE", "DEVNULL"}

StderrArgs == {"None", "PIPE", "STDOUT"}

\* A stream left unspecified is a pipe.
popen_default(stream) == IF stream = "None" THEN "PIPE" ELSE stream

\* The fields of the ProcHelper when __init__ ends, and the exception it
\* ends with.  Popen raises before self.process is assigned, so the EPIPE
\* branch calls communicate() on None.
ProcHelper(h) ==
    IF h.which = "None"
    THEN [process |-> "None", process_err |-> "not found", raised |-> "None"]
    ELSE IF h.popen = "ok"
    THEN [process |-> "proc", process_err |-> "None", raised |-> "None"]
    ELSE IF h.popen = "EPIPE"
    THEN [process |-> "None", process_err |-> "problem executing",
          raised |-> "AttributeError"]
    ELSE [process |-> "None", process_err |-> "problem executing",
          raised |-> "OSError"]

\* A ProcHelper is about to be constructed.
InitHelper ==
    /\ project_backends = [p \in Projects |-> 0]
    /\ file_to_project = [f \in Files |-> "none"]
    /\ nclients = 0
    /\ client = [c \in Clients |-> NoClient]
    /\ lockHolder = [c \in Clients |-> NoThread]
    /\ process = [c \in Clients |-> NoProcess]
    /\ hist = [c \in Clients |-> NoHist]
    /\ th = [t \in Threads |-> IdleThread]
    /\ xlat = NoCall
    /\ helper \in [pc : {"init"}, which : WhichOutcomes, popen : PopenOutcomes,
                   stdout : StdoutArgs, stderr : StderrArgs,
                   is_windows : BOOLEAN, augmented_env : {"None", "env"}]
    /\ ghc_opts = <<>>
    /\ opt_args = [c \in Clients |-> <<>>]

\* ProcHelper.__init__(command, **popen_kwargs).
Construct ==
    /\ helper.pc = "init"
    /\ helper' = [pc |-> "done",
                  which |-> helper.which,
                  popen |-> helper.popen,
                  augmented_env |-> "env",
                  startupinfo |-> helper.is_windows,
                  stdout |-> popen_default(helper.stdout),
                  stderr |-> popen_default(helper.stderr),
                  process |-> ProcHelper(helper).process,
                  process_err |-> ProcHelper(helper).process_err,
                  raised |-> ProcHelper(helper).raised]
    /\ UNCHANGED <<ghc_opts, opt_args, xlat, project_backends,
                   file_to_project, nclients, client, lockHolder, process,
                   hist, th>>

NextHelper == Construct

SpecHelper == InitHelper /\ [][NextHelper]_vars

\* C22: when the construction of a ProcHelper is over it has returned, and
\* the helper has a process exactly when it has no process_err: whether the
\* executable was found and started, was not found, or Popen raised an
\* OSError.
C22_AsStated ==
    helper.pc = "done" =>
        /\ helper.raised = "None"
        /\ helper.process # "None" <=> helper.process_err = "None"

\* Of the constructions that return, each has a process or a process_err
\* and not both; those are the ones where Popen did not raise.
C22_Returned ==
    (helper.pc = "done" /\ helper.raised = "None") =>
        /\ helper.process # "None" <=> helper.process_err = "None"
        /\ helper.which = "None" \/ helper.popen = "ok"

\* Popen raised an OSError with errno EPIPE and the construction ended in an
\* AttributeError.
C22_Epipe ==
    /\ helper.pc = "done"
    /\ helper.which = "found"
    /\ helper.popen = "EPIPE"
    /\ helper.raised = "AttributeError"

\* Thread t is in read_response's loop: about to call readline(), or in it.
InLoop(t) == th[t].pc \in {"read", "readline"}

\* A line that ends the loop: `O: OK`, an NG line, or a line with any other
\* prefix that is not a marker.
Terminator(l) == EndsReply(l) \/ ~HasMarker(l)

\* What a step does to the loop of thread t, when it is in it: the thread
\* holds the session's lock; it leaves the loop only from readline(), on an
\* I/O error, on the end of the stream or on a terminator; it goes round
\* only on an O: line that is not OK or on an X: line; and while the pipe is
\* empty and ghc-mod runs it stays in readline().
ReadLoopStep(t) ==
    LET c == th[t].cl
        pipe == process[c].stdout
        eof == pipe = <<>> /\ process[c].state # "running"
        left == th'[t].pc \notin {"read", "readline"}
    IN  InLoop(t) =>
          /\ lockHolder[c] = t
          /\ left =>
               /\ th[t].pc = "readline"
               /\ \/ th'[t].fin = "oserror"
                  \/ eof
                  \/ pipe # <<>> /\ Terminator(Head(pipe).text)
          /\ (th[t].pc = "readline" /\ th'[t].pc = "read") =>
               /\ pipe # <<>>
               /\ HasMarker(Head(pipe).text)
               /\ ~EndsReply(Head(pipe).text)
          /\ (th[t].pc = "readline" /\ th'[t] # th[t]
                /\ (eof \/ (pipe # <<>> /\ Terminator(Head(pipe).text)))) => left
          /\ (th[t].pc = "readline" /\ pipe = <<>> /\ process[c].state = "running") =>
               \/ th'[t] = th[t]
               \/ th'[t].fin = "oserror"
          /\ ~left => lockHolder'[c] = t

\* C23: the read-reply loop ends exactly at the first `O: OK` line, NG line,
\* line with another prefix, end of stream or I/O error; an X: line or an
\* O: line that is not OK never ends it; and as long as ghc-mod gives none
\* of these the caller stays in the loop, holding the session's lock.
C23_AsStated == [][\A t \in Threads : ReadLoopStep(t)]_vars

\* The same of the loops on a session that no other thread has shut down.
C23_Undisturbed ==
    [][\A t \in Threads :
          (InLoop(t) /\ client[th[t].cl].ghcmod = "proc") => ReadLoopStep(t)]_vars

\* A thread is about to call readline() on a session whose ghcmod another
\* thread's shutdown() has set to None.
C23_ShutDownUnderLoop ==
    \E t \in Threads :
       /\ th[t].pc = "read"
       /\ th[t].seen # <<>>
       /\ client[th[t].cl].ghcmod = "None"

\* ---------------------------------------------------------------------
\* map_file statement by statement
\* ---------------------------------------------------------------------

\* The statements of map_file that write, by the position of the thread,
\* and what each hands to the session's stdin.
UploadParts ==
    [write |-> "map-file", write_contents |-> "contents", write_eot |-> "eot"]

\* The position after each of them.
UploadNext ==
    [write |-> "write_contents", write_contents |-> "write_eot",
     write_eot |-> "flush"]

\* What is written to the text wrapper of stdin stays in its buffer until a
\* flush: ghc-mod sees what has been flushed.  The lines of command_backend,
\* unmap_file and shutdown are printed with flush=True.
Flushed(e) == IF "flushed" \in DOMAIN e THEN e.flushed ELSE TRUE

flush(q) ==
    [i \in 1..Len(q) |->
        IF "flushed" \in DOMAIN q[i] THEN [q[i] EXCEPT !.flushed = TRUE]
        ELSE q[i]]

\* One of map_file's three writes: print('map-file ' + file), write(contents)
\* or write('\n' + chr(4) + '\n').  With ghcmod None the AttributeError
\* leaves the with block and reaches the caller.
MapFileWrite(t) ==
    LET s == th[t]
        c == s.cl
    IN  /\ s.pc \in DOMAIN UploadParts
        /\ s.stage = "map"
        /\ UNCHANGED <<helper, ghc_opts, opt_args, xlat, project_backends,
                       file_to_project, nclients, client, hist>>
        /\ IF client[c].ghcmod = "None"
           THEN /\ th' = [th EXCEPT ![t] =
                            After([s EXCEPT !.fin = "write_none"],
                                  Raise("AttributeError"))]
                /\ UNCHANGED process
                /\ lockHolder' = release(c)
           ELSE /\ process' = [process EXCEPT ![c].stdin =
                                 Append(@, [kind |-> UploadParts[s.pc],
                                            file |-> s.file, by |-> t,
                                            flushed |-> FALSE])]
                /\ th' = [th EXCEPT ![t].pc = UploadNext[s.pc]]
                /\ UNCHANGED lockHolder

\* self.ghcmod.process.stdin.flush() of map_file: an OSError (the process
\* has exited) is caught: shutdown(), return ([], []).
MapFileFlush(t) ==
    LET s == th[t]
        c == s.cl
    IN  /\ s.pc = "flush"
        /\ UNCHANGED <<helper, ghc_opts, opt_args, xlat, project_backends,
                       file_to_project, nclients>>
        /\ IF client[c].ghcmod = "None"
           THEN /\ th' = [th EXCEPT ![t] =
                            After([s EXCEPT !.fin = "write_none"],
                                  Raise("AttributeError"))]
                /\ UNCHANGED <<client, process, hist>>
                /\ lockHolder' = release(c)
           ELSE IF process[c].state # "running"
           THEN /\ shutdown(c, t)
                /\ lockHolder' = release(c)
                /\ th' = [th EXCEPT ![t] =
                            After([s EXCEPT !.fin = "write_oserror"],
                                  Value(<<>>, <<>>))]
           ELSE /\ process' = [process EXCEPT ![c].stdin = flush(@)]
                /\ th' = [th EXCEPT ![t].pc = "read"]
                /\ UNCHANGED <<client, lockHolder, hist>>

\* command_backend and unmap_file write their one line.
WriteLine(t) == th[t].stage # "map" /\ Write(t)

\* stop_backend() is called while there is a session.
StopBackendCall(t) == Keys # {} /\ StopBackend(t)

\* shutdown() of stop_backend, up to its print: the blank line is printed
\* with flush=True when ghcmod is set (an OSError is passed over).  The
\* caller holds no lock.
StopPrint(t) ==
    LET s == th[t]
    IN  /\ s.pc = "stop"
        /\ \E p \in s.todo :
              LET c == project_backends[p]
                  prints == client[c].ghcmod = "proc"
                  blank == [kind |-> "blank", file |-> "none", by |-> NoThread]
              IN  /\ process' =
                        IF prints /\ process[c].state = "running"
                        THEN [process EXCEPT ![c].stdin = Append(flush(@), blank)]
                        ELSE process
                  /\ hist' = [hist EXCEPT
                                ![c].calls = IF @ < CallsCounted THEN @ + 1 ELSE @,
                                ![c].writes = IF prints THEN @ + 1 ELSE @,
                                ![c].unlocked = @ \/ (prints /\ lockHolder[c] # t)]
                  /\ th' = [th EXCEPT ![t].pc = "stop_join", ![t].cl = c,
                                      ![t].todo = @ \ {p}]
        /\ UNCHANGED <<helper, ghc_opts, opt_args, xlat, project_backends,
                       file_to_project, nclients, client, lockHolder>>

\* The rest of that shutdown(), after the drain was stopped and joined: the
\* three fields are set to None; the loop of stop_backend is at its end and
\* self.project_backends is bound to a new dictionary.
StopClear(t) ==
    LET s == th[t]
        c == s.cl
    IN  /\ s.pc = "stop_join"
        /\ client' = [client EXCEPT ![c].ghcmod = "None",
                                    ![c].action_lock = FALSE,
                                    ![c].stderr_drain = "None"]
        /\ hist' = [hist EXCEPT
                      ![c].stops = IF client[c].stderr_drain = "alive"
                                   THEN @ + 1 ELSE @]
        /\ project_backends' = [p \in Projects |-> 0]
        /\ th' = [th EXCEPT ![t] = Finish(s, Value(<<>>, <<>>))]
        /\ UNCHANGED <<helper, ghc_opts, opt_args, xlat, file_to_project,
                       nclients, lockHolder, process>>

\* ghc-mod (running) works on what has been flushed to its stdin: a blank
\* line ends it; a command is answered; a map-file line starts an upload,
\* which goes up to the EOT line and is answered when that has arrived.
ToolUpload(c) ==
    LET q == process[c]
        cmd == Head(q.stdin)
        ends == {k \in 1..Len(q.stdin) :
                    q.stdin[k].kind = "eot" /\ Flushed(q.stdin[k])}
        last == IF cmd.kind # "map-file" THEN 1
                ELSE CHOOSE k \in ends : \A j \in ends : k <= j
    IN  /\ q.state = "running"
        /\ q.stdin # <<>>
        /\ Flushed(cmd)
        /\ cmd.kind = "map-file" => ends # {}
        /\ cmd.kind = "blank" \/ Len(q.stdout) < MaxPipe
        /\ process' = [process EXCEPT ![c] =
              IF cmd.kind = "blank"
              THEN [q EXCEPT !.state = "exited", !.stdin = <<>>]
              ELSE [q EXCEPT
                      !.stdout = Append(@, [text |-> LineOK, by |-> cmd.by]),
                      !.stdin = SubSeq(@, last + 1, Len(@))]]
        /\ UNCHANGED <<helper, ghc_opts, opt_args, xlat, project_backends,
                       file_to_project, nclients, client, lockHolder, hist, th>>

\* One session is running.
InitUpload ==
    /\ project_backends = [p \in Projects |-> IF p = "p1" THEN 1 ELSE 0]
    /\ file_to_project = [f \in Files |-> IF f = "f1" THEN "p1" ELSE "none"]
    /\ nclients = 1
    /\ client = [c \in Clients |->
                   IF c = 1 THEN GHCModClient("p1", "proc") ELSE NoClient]
    /\ lockHolder = [c \in Clients |-> NoThread]
    /\ process = [c \in Clients |->
                    IF c = 1 THEN [NoProcess EXCEPT !.state = "running"]
                    ELSE NoProcess]
    /\ hist = [c \in Clients |-> NoHist]
    /\ th = [t \in Threads |-> IdleThread]
    /\ xlat = NoCall
    /\ helper = NoHelper
    /\ ghc_opts = <<>>
    /\ opt_args = [c \in Clients |-> <<>>]

\* Two threads call check or lint with the contents of the file; the second
\* also calls stop_backend.
StepUpload(t) ==
    \/ Check(t, "f1", TRUE)
    \/ Resolve(t)
    \/ Acquire(t)
    \/ MapFileWrite(t)
    \/ MapFileFlush(t)
    \/ WriteLine(t)
    \/ Read(t)
    \/ Readline(t)

NextUpload ==
    \/ \E t \in Threads : StepUpload(t)
    \/ StopBackendCall("t2")
    \/ StopPrint("t2")
    \/ StopClear("t2")
    \/ \E c \in Clients : ToolUpload(c)
    \/ \E c \in Clients : ToolExit(c)

SpecUpload == InitUpload /\ [][NextUpload]_vars

\* The parts of uploads in what was written to a stdin follow each other:
\* after a map-file line comes the contents of the same upload, after the
\* contents its EOT line, and nothing else comes before either.
PartsInOrder(q) ==
    \A i \in 1..Len(q) :
       /\ q[i].kind = "contents" =>
             i > 1 /\ q[i - 1].kind = "map-file" /\ q[i - 1].by = q[i].by
       /\ q[i].kind = "eot" =>
             i > 1 /\ q[i - 1].kind = "contents" /\ q[i - 1].by = q[i].by
       /\ (q[i].kind = "map-file" /\ i < Len(q)) => q[i + 1].kind = "contents"
       /\ (q[i].kind = "contents" /\ i < Len(q)) => q[i + 1].kind = "eot"

\* Thread t is at one of map_file's writes or at its flush.
Uploading(t) ==
    th[t].stage = "map" /\ th[t].pc \in {"write", "write_contents", "write_eot", "flush"}

\* What an exited ghc-mod had not read is lost, so the order is that of the
\* stdin of a running one.
UploadAsStated(c) ==
    /\ process[c].state = "running" => PartsInOrder(process[c].stdin)
    /\ \A t \in Threads :
          /\ (Uploading(t) /\ th[t].cl = c) => lockHolder[c] = t
          /\ (InLoop(t) /\ th[t].stage = "map" /\ th[t].cl = c
                /\ process[c].state = "running") =>
                \A i \in 1..Len(process[c].stdin) :
                   process[c].stdin[i].by = t =>
                      /\ Flushed(process[c].stdin[i])
                      /\ \E k \in i..Len(process[c].stdin) :
                            process[c].stdin[k].kind = "eot"
                            /\ process[c].stdin[k].by = t

\* C24: what map_file writes to the session's stdin is the map-file line,
\* then the contents, then the EOT line, with nothing of anybody else in
\* between; the writer holds the session's lock throughout; and when it
\* starts the read-reply loop all of it has been written and flushed.
C24_AsStated == \A c \in Clients : UploadAsStated(c)

\* The same of the sessions on which nothing was printed without the lock.
C24_Undisturbed == \A c \in Clients : ~hist[c].unlocked => UploadAsStated(c)

\* The blank line of a shutdown() stands between the map-file line and the
\* contents of an upload.
C24_BlankInUpload ==
    \E c \in Clients :
       /\ process[c].state = "running"
       /\ Len(process[c].stdin) >= 3
       /\ process[c].stdin[1].kind = "map-file"
       /\ process[c].stdin[2].kind = "blank"
       /\ process[c].stdin[3].kind = "contents"

\* Thread t's check or lint has written its map-file to the session and has
\* not yet written its analysis command.
BetweenMapAndCommand(t) ==
    /\ th[t].op = "check"
    /\ th[t].cl # 0
    /\ \/ th[t].stage = "map" /\ th[t].pc \in {"read", "readline"}
       \/ /\ th[t].stage = "cmd"
          /\ th[t].mapped_file
          /\ th[t].pc \in {"resolve", "acquire", "write"}

\* In this step thread u writes a map-file or an unmap-file to a running
\* ghc-mod, which works through its stdin in order.
WritesMapping(u) ==
    /\ th[u].pc = "write"
    /\ th[u].stage \in {"map", "unmap"}
    /\ th'[u].pc = "read"
    /\ process[th[u].cl].state = "running"

\* C25: between a caller's map-file for a file and its analysis command no
\* other caller's map-file or unmap-file for that file goes to the session.
C25_AsStated ==
    [][\A t \in Threads : \A u \in Threads \ {t} :
          ~ /\ BetweenMapAndCommand(t)
            /\ WritesMapping(u)
            /\ th[u].cl = th[t].cl
            /\ th[u].file = th[t].file
            /\ hist[th[t].cl].calls = 0]_vars

\* A caller is about to write its analysis command while the last mapping
\* ghc-mod was given for the file is another caller's unmap-file, on a
\* session nobody has shut down.
C25_AnalysisUnmapped ==
    \E t \in Threads : \E u \in Threads \ {t} :
       /\ BetweenMapAndCommand(t)
       /\ th[t].pc = "write"
       /\ lockHolder[th[t].cl] = t
       /\ th[u].op = "check"
       /\ th[u].pc = "idle"
       /\ th[u].log = <<"map", "cmd", "unmap">>
       /\ th[u].fin = "ok"
       /\ process[th[t].cl].state = "running"
       /\ hist[th[t].cl].calls = 0

\* ---------------------------------------------------------------------
\* The lock on the exit paths of command_backend, map_file and unmap_file
\* ---------------------------------------------------------------------

\* Thread t is blocked in the acquire() of `with self.action_lock:`.
Waiting(t) == th[t].pc = "acquire"

\* Thread t is inside the with block of command_backend, map_file or
\* unmap_file, between its first write and the end of read_response.
InWith(t) ==
    th[t].pc \in {"write", "write_contents", "write_eot", "flush", "read",
                  "readline"}

\* C26: the session lock is released on every exit path of
\* command_backend, map_file and unmap_file, those that run shutdown() and
\* set the lock field to None while the lock is held included: a lock is
\* held only by a thread that is inside the with block of that session, and
\* a thread waiting on a lock nobody holds can take it.
C26_LockReleased ==
    /\ \A c \in Clients : \A t \in Threads :
          lockHolder[c] = t => InWith(t) /\ th[t].cl = c
    /\ \A t \in Threads :
          Waiting(t) /\ lockHolder[th[t].cl] = NoThread => ENABLED Acquire(t)

\* A thread that waited while the holder of the lock ran shutdown() on an
\* I/O error now holds the lock of the session whose lock field is None.
C26_Witness ==
    \E t, u \in Threads :
       /\ t # u
       /\ th[t].pc = "write"
       /\ lockHolder[th[t].cl] = t
       /\ ~client[th[t].cl].action_lock
       /\ ~hist[th[t].cl].unlocked
       /\ hist[th[t].cl].calls = 1
       /\ th[u].pc = "idle"
       /\ th[u].fin \in {"oserror", "write_oserror"}

\* ---------------------------------------------------------------------
\* The configured GHC options and the arguments of a session
\* ---------------------------------------------------------------------

\* Settings.PLUGIN.ghc_opts as the user configured it.
ConfiguredOpts == << <<"-Wall">> >>

InitOpts ==
    /\ project_backends = [p \in Projects |-> 0]
    /\ file_to_project = [f \in Files |-> "none"]
    /\ nclients = 0
    /\ client = [c \in Clients |-> NoClient]
    /\ lockHolder = [c \in Clients |-> NoThread]
    /\ process = [c \in Clients |-> NoProcess]
    /\ hist = [c \in Clients |-> NoHist]
    /\ th = [t \in Threads |-> IdleThread]
    /\ xlat = NoCall
    /\ helper = NoHelper
    /\ ghc_opts = ConfiguredOpts
    /\ opt_args = [c \in Clients |-> <<>>]

\* Files of the two projects are registered and the sessions stopped, in
\* project directories with and without a packages-*.conf.
StepOpts(t) ==
    \/ \E f \in Files : AddProjectFile(t, f, MaxClients)
    \/ AddCreateIn(t, BOOLEAN)
    \/ StopBackend(t)
    \/ StopNext(t)

NextOpts ==
    \/ \E t \in Threads : StepOpts(t)
    \/ \E c \in Clients : ToolExit(c)
    \/ \E c \in Clients : DrainEnd(c)

SpecOpts == InitOpts /\ [][NextOpts]_vars

\* The arguments add_project_file computes for file f from the options as
\* configured.
ArgsFor(f) == get_ghc_opts_args(ConfiguredOpts, f, TRUE, FALSE).opts

\* The sessions constructed so far.
Constructed == 1..nclients

\* C27: computing a project's invocation arguments leaves the configured
\* GHC options unchanged, and the arguments a session was started with are
\* those of its own file and project directory, whatever was registered
\* before.
C27_AsStated ==
    /\ ghc_opts = ConfiguredOpts
    /\ \A c \in Constructed :
          \E f \in Files : /\ ProjectOf(f) = client[c].project
                           /\ opt_args[c] = ArgsFor(f)

\* The session of the second project was started with the source directory
\* of the first project's file among its arguments.
C27_OptionsInherited ==
    \E c \in Constructed :
       /\ client[c].project = "p2"
       /\ \E i \in DOMAIN opt_args[c] : opt_args[c][i] = <<"-i", "src1">>

\* With no options configured each call builds its own list.
C27_FreshWhenUnset ==
    /\ ghc_opts = <<>>
    /\ \A c \in Constructed :
          \E f \in Files :
             /\ ProjectOf(f) = client[c].project
             /\ opt_args[c] = get_ghc_opts_args(<<>>, f, TRUE, FALSE).opts

====
